---- MODULE Spec2Model ----
(***************************************************************************)
(* The consensus engine of backend/consensus.py: call_llm and call_bedrock *)
(* (one logical call to a backend with retry and backoff),                 *)
(* call_participant and call_ranking (the fault-isolating wrappers of one  *)
(* branch) and run (two gathered fan-outs followed by the chairman's outer *)
(* retry loop).                                                            *)
(*                                                                         *)
(* Every coroutine is cut at its await points: the HTTP post and           *)
(* asyncio.sleep.  One action is the code that runs between two awaits.    *)
(* A Python str is a sequence of one-character strings, a list is a        *)
(* function on 0..n-1, a dict is a record.                                 *)
(***************************************************************************)
EXTENDS Integers, Sequences, FiniteSets, TLC

(***************************************************************************)
(* Bounds of the model.                                                    *)
(***************************************************************************)
\* Largest retry budget max_retries given to a direct call of call_llm.
MaxBudget == 3
\* Most replies to the branches of one run (both fan-outs together) that are
\* not the well-formed success the called backend family expects.
MaxFaults == 1
\* Most such replies to the chairman in a run whose branches may fail too.
MaxChairmanFaults == 1
\* Most requests that reach rate_limit_middleware after the opening bursts.
MaxArrivals == 3

(***************************************************************************)
(* Program constants.                                                      *)
(***************************************************************************)
DefaultMaxRetries == 3
ChairmanMaxRetries == 3
max_chairman_retries == 5
BackoffBase == 2
FlatBackoff == 2
ChairmanBackoffBase == 3
\* RATE_LIMIT = 100 requests per window
RATE_LIMIT == 100
\* RATE_WINDOW = timedelta(minutes=15), in minutes
RATE_WINDOW == 15

(***************************************************************************)
(* Python strings.                                                         *)
(***************************************************************************)
\* sub in s
Contains(s, sub) ==
    \E i \in 0..(Len(s) - Len(sub)) : SubSeq(s, i + 1, i + Len(sub)) = sub

LowerChar(c) ==
    CASE c = "A" -> "a" [] c = "B" -> "b" [] c = "C" -> "c" [] c = "D" -> "d"
      [] c = "E" -> "e" [] c = "F" -> "f" [] c = "G" -> "g" [] c = "H" -> "h"
      [] c = "I" -> "i" [] c = "J" -> "j" [] c = "K" -> "k" [] c = "L" -> "l"
      [] c = "M" -> "m" [] c = "N" -> "n" [] c = "O" -> "o" [] c = "P" -> "p"
      [] c = "Q" -> "q" [] c = "R" -> "r" [] c = "S" -> "s" [] c = "T" -> "t"
      [] c = "U" -> "u" [] c = "V" -> "v" [] c = "W" -> "w" [] c = "X" -> "x"
      [] c = "Y" -> "y" [] c = "Z" -> "z" [] OTHER -> c

\* s.lower()
Lower(s) == [i \in 1..Len(s) |-> LowerChar(s[i])]

\* s.find(sub) + 1: the position of the first occurrence of sub in s, 0 if none
Find(s, sub) ==
    IF Contains(s, sub)
    THEN CHOOSE i \in 1..(Len(s) - Len(sub) + 1) :
            /\ SubSeq(s, i, i + Len(sub) - 1) = sub
            /\ \A j \in 1..(i - 1) : SubSeq(s, j, j + Len(sub) - 1) # sub
    ELSE 0

\* s.split(sep), for a non-empty sep: the parts of s between the occurrences
\* of sep, found from the left
RECURSIVE Split(_, _)
Split(s, sep) ==
    LET i == Find(s, sep) IN
    IF i = 0 THEN <<s>>
    ELSE <<SubSeq(s, 1, i - 1)>> \o Split(SubSeq(s, i + Len(sep), Len(s)), sep)

\* l[i] of a Python list kept as a sequence
ListAt(l, i) == l[i + 1]

\* s.startswith(prefix)
StartsWith(s, prefix) == Len(s) >= Len(prefix) /\ SubSeq(s, 1, Len(prefix)) = prefix

\* 2 ** n
RECURSIVE Pow2(_)
Pow2(n) == IF n = 0 THEN 1 ELSE 2 * Pow2(n - 1)

(***************************************************************************)
(* Values: None, optional strings, exceptions and str() of them.           *)
(***************************************************************************)
NoneVal == [k |-> "None"]
Some(s) == [k |-> "Some", v |-> s]
\* "not api_key" is true of None and of the empty string
Truthy(o) == o.k = "Some" /\ o.v # <<>>

HTTPStatusError(status) == [type |-> "HTTPStatusError", status |-> status]
NetworkError == [type |-> "ConnectError"]
KeyError(key) == [type |-> "KeyError", key |-> key]
IndexError == [type |-> "IndexError"]
MissingCredential == [type |-> "Exception", msg |-> "Bedrock API key is required"]
\* asyncio.CancelledError, thrown into a task at its pending await
CancelledError == [type |-> "CancelledError"]
\* "except Exception" matches e: every exception of the model but
\* CancelledError, which derives from BaseException
IsException(e) == e.type # "CancelledError"
FailedAfter(route, n) == [type |-> "Exception", msg |-> "failed after attempts", route |-> route, n |-> n]

\* str(e)
StrOf(x) == [k |-> "str", of |-> x]
\* f"[Error: {str(e)}]"
ErrorMarker(e) == [k |-> "marker", prefix |-> "[Error: ", reason |-> StrOf(e)]
\* f"[Error generating consensus: {str(e)}]"
ConsensusErrorMarker(e) ==
    [k |-> "marker", prefix |-> "[Error generating consensus: ", reason |-> StrOf(e)]

(***************************************************************************)
(* Backend descriptors (LLMConfig).                                        *)
(***************************************************************************)
LLMConfig(endpoint, model, api_key, type) ==
    [endpoint |-> endpoint, model |-> model, api_key |-> api_key, type |-> type]

S_bedrock == <<"b","e","d","r","o","c","k">>
S_claude == <<"c","l","a","u","d","e">>
S_anthropic_claude == <<"a","n","t","h","r","o","p","i","c",".","c","l","a","u","d","e">>
S_titan == <<"t","i","t","a","n">>
S_amazon_titan == <<"a","m","a","z","o","n",".","t","i","t","a","n">>
S_nova == <<"n","o","v","a">>
S_amazon_nova == <<"a","m","a","z","o","n",".","n","o","v","a">>
S_llama == <<"l","l","a","m","a">>
S_meta_llama == <<"m","e","t","a",".","l","l","a","m","a">>
S_mistral == <<"m","i","s","t","r","a","l">>
S_mixtral == <<"m","i","x","t","r","a","l">>

\* Descriptors the runs and the direct calls draw from.
E_openai == <<"h","t","t","p",":","/","/","o","a","i","/","v","1">>
E_aws == <<"a","w","s","?","r","e","g","i","o","n","=","e","u","-","w","e","s","t","-","1">>
E_aws_amp ==
    <<"a","w","s","?","r","e","g","i","o","n","=","u","s","-","w","e","s","t","-","2","&","x","=","1">>
E_aws_twice ==
    <<"a","w","s","?","r","e","g","i","o","n","=","a","&","r","e","g","i","o","n","=","b">>
E_aws_list ==
    <<"a","w","s","?","r","e","g","i","o","n","=","e","u",",","r","e","g","i","o","n","=","u","s">>
E_Bedrock == <<"h","t","t","p","s",":","/","/","B","e","d","r","o","c","k","/","x">>
E_openrouter ==
    <<"h","t","t","p",":","/","/","o","p","e","n","r","o","u","t","e","r",".","a","i",
      "/","v","1">>
E_local == <<"h","t","t","p",":","/","/","h",":","1","1","4","3","4">>
E_OLLAMA == <<"h","t","t","p",":","/","/","O","L","L","A","M","A",":","8","0","8","0">>
M_gpt == <<"g","p","t">>
M_Claude == <<"C","l","a","u","d","e","-","3">>
M_nova == <<"u","s",".","a","m","a","z","o","n",".","n","o","v","a">>
M_titan == <<"a","m","a","z","o","n",".","t","i","t","a","n","-","t","g","1">>
M_llama == <<"m","e","t","a",".","l","l","a","m","a","3">>
M_mixtral ==
    <<"m","i","s","t","r","a","l",".","m","i","x","t","r","a","l","-","8","x","7","b">>
M_other == <<"m","y","-","m","o","d","e","l">>
\* identifiers that name two families
M_llama_nova == <<"L","l","a","m","a","-","N","o","v","a">>
M_mixtral_titan == <<"m","i","x","t","r","a","l",".","t","i","t","a","n">>
Key == Some(<<"k">>)

D_openai == LLMConfig(E_openai, M_gpt, NoneVal, "openai")
D_claude == LLMConfig(E_aws, M_Claude, Key, "bedrock")
D_nova == LLMConfig(E_Bedrock, M_nova, Key, "openai")
D_titan == LLMConfig(E_aws, M_titan, Key, "bedrock")
D_llama == LLMConfig(E_Bedrock, M_llama, Key, "bedrock")
D_mistral == LLMConfig(E_aws, M_mixtral, Key, "bedrock")
D_bedrock_other == LLMConfig(E_aws, M_other, Key, "bedrock")
D_bedrock_nokey == LLMConfig(E_aws, M_Claude, NoneVal, "bedrock")
D_bedrock_emptykey == LLMConfig(E_Bedrock, M_other, Some(<<>>), "openai")
D_llama_nova == LLMConfig(E_aws, M_llama_nova, Key, "bedrock")
D_mixtral_titan == LLMConfig(E_Bedrock, M_mixtral_titan, Key, "openai")
D_region_amp == LLMConfig(E_aws_amp, M_nova, Key, "bedrock")
D_region_twice == LLMConfig(E_aws_twice, M_Claude, Key, "bedrock")
D_region_list == LLMConfig(E_aws_list, M_other, Key, "bedrock")
D_openrouter == LLMConfig(E_openrouter, M_gpt, Key, "openai")
D_ollama_url == LLMConfig(E_local, M_gpt, NoneVal, "openai")
D_ollama_typed == LLMConfig(E_openai, M_gpt, NoneVal, "ollama")
D_OLLAMA_url == LLMConfig(E_OLLAMA, M_gpt, NoneVal, "openai")

\* Descriptors of a direct call of call_llm.
Descriptors ==
    {D_openai, D_claude, D_nova, D_bedrock_other, D_bedrock_nokey, D_bedrock_emptykey,
     D_openrouter, D_ollama_url, D_ollama_typed, D_OLLAMA_url, D_titan, D_llama,
     D_mistral, D_region_amp, D_region_twice, D_region_list, D_llama_nova,
     D_mixtral_titan}
\* Descriptors of the participants and the chairman of a run.
RunDescriptors == {D_openai, D_claude, D_bedrock_nokey}
Pool == <<D_openai, D_claude, D_bedrock_nokey>>

(***************************************************************************)
(* Backend replies.  A 200 body is known by the one top-level key it has   *)
(* (with the nested path below it well formed) and the text at that path.  *)
(***************************************************************************)
Paths ==
    {"choices", "response", "content", "results", "output", "generation",
     "outputs", "other"}
Body(path, text) == [path |-> path, text |-> text]
\* the text a backend produces for the caller "who"
TextBy(who) == [k |-> "text", by |-> who]

Ok(body) == [kind |-> "http", status |-> 200, body |-> body]
ErrStatus(status) == [kind |-> "http", status |-> status]
\* a redirect that carries a JSON body: the clients do not follow redirects
Redirect(body) == [kind |-> "http", status |-> 301, body |-> body]
\* response.raise_for_status() returns for the 2xx statuses and raises
\* httpx.HTTPStatusError for every other one
IsSuccess(status) == status >= 200 /\ status <= 299
NetFail == [kind |-> "net"]
\* the top-level keys of the bodies the backends of a run answer with
RunPaths == {"choices", "content", "other"}
Replies(who, paths) ==
    {Ok(Body(p, TextBy(who))) : p \in paths} \cup {ErrStatus(429), ErrStatus(500), NetFail}

(***************************************************************************)
(* Family detection and response parsing.                                  *)
(***************************************************************************)
S_region_eq == <<"r","e","g","i","o","n","=">>
S_amp == <<"&">>
S_us_east_1 == <<"u","s","-","e","a","s","t","-","1">>

\* Mutant of RegionOf: the default region whatever the endpoint says.
RegionOfAlwaysDefault(endpoint) == S_us_east_1

\* region = "us-east-1"
\* if "region=" in endpoint: region = endpoint.split("region=")[1].split("&")[0]
RegionOf(endpoint) ==
    IF Contains(endpoint, S_region_eq)
    THEN ListAt(Split(ListAt(Split(endpoint, S_region_eq), 1), S_amp), 0)
    ELSE S_us_east_1

\* call_llm: endpoint_type == "bedrock" or "bedrock" in endpoint.lower()
IsBedrock(config) ==
    config.type = "bedrock" \/ Contains(Lower(config.endpoint), S_bedrock)

\* call_bedrock: the if/elif chain on model.lower() that formats the request
BedrockFamily(model) ==
    LET model_lower == Lower(model) IN
    IF Contains(model_lower, S_anthropic_claude) \/ Contains(model_lower, S_claude)
    THEN "claude"
    ELSE IF Contains(model_lower, S_amazon_titan) \/ Contains(model_lower, S_titan)
    THEN "titan"
    ELSE IF Contains(model_lower, S_amazon_nova) \/ Contains(model_lower, S_nova)
    THEN "nova"
    ELSE IF Contains(model_lower, S_meta_llama) \/ Contains(model_lower, S_llama)
    THEN "llama"
    ELSE IF Contains(model_lower, S_mistral) \/ Contains(model_lower, S_mixtral)
    THEN "mistral"
    ELSE "generic"

S_runtime_host ==
    <<"h","t","t","p","s",":","/","/","b","e","d","r","o","c","k","-","r","u","n","t",
      "i","m","e",".">>
S_model_path ==
    <<".","a","m","a","z","o","n","a","w","s",".","c","o","m","/","m","o","d","e","l","/">>
S_invoke == <<"/","i","n","v","o","k","e">>
S_us == <<"u","s",".">>
S_eu == <<"e","u",".">>
S_ap == <<"a","p",".">>
S_openrouter_ai == <<"o","p","e","n","r","o","u","t","e","r",".","a","i">>
S_ollama == <<"o","l","l","a","m","a">>
S_11434 == <<"1","1","4","3","4">>

\* call_bedrock: the invoke endpoint, for an inference profile and for a
\* direct model id
BedrockEndpoint(model, region) ==
    IF StartsWith(model, S_us) \/ StartsWith(model, S_eu) \/ StartsWith(model, S_ap)
    THEN S_runtime_host \o region \o S_model_path \o model \o S_invoke
    ELSE S_runtime_host \o region \o S_model_path \o model \o S_invoke

\* {"role": "user", "content": content}
UserMessage(content) == [role |-> "user", content |-> content]

\* call_bedrock: format request based on model family
BedrockBody(model, prompt) ==
    LET family == BedrockFamily(model) IN
    CASE family = "claude" ->
            [anthropic_version |-> "bedrock-2023-05-31", max_tokens |-> 4096,
             messages |-> <<UserMessage(prompt)>>]
      [] family = "titan" ->
            [inputText |-> prompt,
             textGenerationConfig |-> [maxTokenCount |-> 4096, temperature |-> "0.7"]]
      [] family = "nova" ->
            [messages |-> <<UserMessage(<<[text |-> prompt]>>)>>,
             inferenceConfig |-> [maxTokens |-> 4096, temperature |-> "0.7"]]
      [] family = "llama" ->
            [prompt |-> prompt, max_gen_len |-> 2048, temperature |-> "0.7"]
      [] family = "mistral" ->
            [prompt |-> prompt, max_tokens |-> 4096, temperature |-> "0.7"]
      [] OTHER -> [messages |-> <<UserMessage(prompt)>>, max_tokens |-> 4096]

\* call_llm: handle different endpoint formats
GenericPayload(endpoint, model, prompt) ==
    IF Contains(endpoint, S_openrouter_ai)
    THEN [model |-> model, messages |-> <<UserMessage(prompt)>>]
    ELSE IF Contains(endpoint, S_ollama) \/ Contains(endpoint, S_11434)
    THEN [model |-> model, prompt |-> prompt, stream |-> FALSE]
    ELSE [model |-> model, messages |-> <<UserMessage(prompt)>>]

\* client.post(endpoint, json=body, headers=headers); authorization is the
\* key of the "Authorization: Bearer" header, None without that header
PostRequest(url, body, authorization) ==
    [url |-> url, body |-> body, authorization |-> authorization]

Returned(v) == [ok |-> TRUE, val |-> v]
Raised(e) == [ok |-> FALSE, exc |-> e]

\* response_body[key]...: the text, or KeyError when the key is absent
Subscript(body, key) ==
    IF body.path = key THEN Returned(body.text) ELSE Raised(KeyError(key))

\* Mutant of BedrockParseFamily: the llama branch is tried before the nova
\* branch.
BedrockParseFamilyLlamaFirst(model) ==
    LET model_lower == Lower(model) IN
    IF Contains(model_lower, S_anthropic_claude) \/ Contains(model_lower, S_claude)
    THEN "claude"
    ELSE IF Contains(model_lower, S_amazon_titan) \/ Contains(model_lower, S_titan)
    THEN "titan"
    ELSE IF Contains(model_lower, S_meta_llama) \/ Contains(model_lower, S_llama)
    THEN "llama"
    ELSE IF Contains(model_lower, S_amazon_nova) \/ Contains(model_lower, S_nova)
    THEN "nova"
    ELSE IF Contains(model_lower, S_mistral) \/ Contains(model_lower, S_mixtral)
    THEN "mistral"
    ELSE "generic"

\* call_bedrock: the second if/elif chain on model_lower, which picks the
\* branch that parses the response
BedrockParseFamily(model) ==
    LET model_lower == Lower(model) IN
    IF Contains(model_lower, S_anthropic_claude) \/ Contains(model_lower, S_claude)
    THEN "claude"
    ELSE IF Contains(model_lower, S_amazon_titan) \/ Contains(model_lower, S_titan)
    THEN "titan"
    ELSE IF Contains(model_lower, S_amazon_nova) \/ Contains(model_lower, S_nova)
    THEN "nova"
    ELSE IF Contains(model_lower, S_meta_llama) \/ Contains(model_lower, S_llama)
    THEN "llama"
    ELSE IF Contains(model_lower, S_mistral) \/ Contains(model_lower, S_mixtral)
    THEN "mistral"
    ELSE "generic"

\* call_bedrock: parse response based on model family
ParseBedrock(model, body) ==
    LET family == BedrockParseFamily(model) IN
    CASE family = "claude" -> Subscript(body, "content")
      [] family = "titan" -> Subscript(body, "results")
      [] family = "nova" -> Subscript(body, "output")
      [] family = "llama" -> Subscript(body, "generation")
      [] family = "mistral" -> Subscript(body, "outputs")
      [] OTHER ->
            IF body.path = "content" THEN Subscript(body, "content")
            ELSE IF body.path = "output" THEN Subscript(body, "output")
            ELSE Returned(StrOf(body))

\* Mutant of ParseGeneric: only the "choices" path is read.
ParseGenericChoicesOnly(body) ==
    IF body.path = "choices" THEN Subscript(body, "choices")
    ELSE Returned(StrOf(body))

\* call_llm: parse response based on format
ParseGeneric(body) ==
    IF body.path = "choices" THEN Subscript(body, "choices")
    ELSE IF body.path = "response" THEN Subscript(body, "response")
    ELSE Returned(StrOf(body))

\* The path at which the family the request was built for carries its text.
ExpectedPath(config) ==
    IF IsBedrock(config)
    THEN LET family == BedrockFamily(config.model) IN
         CASE family = "claude" -> "content"
           [] family = "titan" -> "results"
           [] family = "nova" -> "output"
           [] family = "llama" -> "generation"
           [] family = "mistral" -> "outputs"
           [] OTHER -> "content"
    ELSE "choices"

(***************************************************************************)
(* One call of call_llm as a state machine.  pc: "new" not started,        *)
(* "post" awaiting the reply of client.post, "sleep" awaiting              *)
(* asyncio.sleep, "ret" returned val, "raise" raised val.                  *)
(***************************************************************************)
NoVal == [k |-> "none"]
NewInvoke ==
    [pc |-> "new", route |-> "none", attempt |-> 0, max_retries |-> 0,
     reqs |-> 0, sleeps |-> <<>>, val |-> NoVal, request |-> NoVal, posts |-> <<>>]

Return(s, v) == [s EXCEPT !.pc = "ret", !.val = v]
Raise(s, e) == [s EXCEPT !.pc = "raise", !.val = e]
\* await asyncio.sleep(t); continue
SleepThenContinue(s, t) == [s EXCEPT !.pc = "sleep", !.sleeps = Append(@, t)]

\* for attempt in range(max_retries): ... client.post(...)
\* falling out of the loop raises "failed after max_retries attempts"
EnterAttempt(s, attempt) ==
    IF attempt < s.max_retries
    THEN [s EXCEPT !.pc = "post", !.attempt = attempt, !.reqs = @ + 1,
                   !.posts = Append(@, s.request)]
    ELSE Raise(s, FailedAfter(s.route, s.max_retries))

\* Mutant of WaitTime: a flat wait after a 429.
WaitTimeFlat(attempt) == BackoffBase

\* wait_time = (2 ** attempt) * 2
WaitTime(attempt) == Pow2(attempt) * BackoffBase

\* Mutant of BedrockExceptException: sleeps and continues without looking at
\* the attempts left.
BedrockExceptExceptionAlwaysSleeps(s, e) == SleepThenContinue(s, FlatBackoff)

\* call_bedrock: except Exception
BedrockExceptException(s, e) ==
    IF s.attempt < s.max_retries - 1
    THEN SleepThenContinue(s, FlatBackoff)
    ELSE Raise(s, e)

\* call_bedrock: except httpx.HTTPStatusError
BedrockExceptHTTPStatusError(s, e) ==
    IF e.status = 429 /\ s.attempt < s.max_retries - 1
    THEN SleepThenContinue(s, WaitTime(s.attempt))
    ELSE IF s.attempt < s.max_retries - 1
    THEN SleepThenContinue(s, FlatBackoff)
    ELSE Raise(s, e)

\* call_bedrock: the body of one attempt, from the reply of client.post on
BedrockOnReply(model, s, r) ==
    IF r.kind = "net" THEN BedrockExceptException(s, NetworkError)
    ELSE IF r.status = 429 /\ s.attempt < s.max_retries - 1
    THEN SleepThenContinue(s, WaitTime(s.attempt))
    ELSE IF ~IsSuccess(r.status)
    THEN BedrockExceptHTTPStatusError(s, HTTPStatusError(r.status))
    ELSE LET parsed == ParseBedrock(model, r.body) IN
         IF parsed.ok THEN Return(s, parsed.val)
         ELSE BedrockExceptException(s, parsed.exc)

\* call_llm: except httpx.HTTPStatusError
GenericExceptHTTPStatusError(s, e) ==
    IF e.status = 429 /\ s.attempt < s.max_retries - 1
    THEN SleepThenContinue(s, WaitTime(s.attempt))
    ELSE Raise(s, e)

\* call_llm: except Exception
GenericExceptException(s, e) == Raise(s, e)

\* call_llm: the body of one attempt, from the reply of client.post on
GenericOnReply(s, r) ==
    IF r.kind = "net" THEN GenericExceptException(s, NetworkError)
    ELSE IF r.status = 429 /\ s.attempt < s.max_retries - 1
    THEN SleepThenContinue(s, WaitTime(s.attempt))
    ELSE IF ~IsSuccess(r.status)
    THEN GenericExceptHTTPStatusError(s, HTTPStatusError(r.status))
    ELSE LET parsed == ParseGeneric(r.body) IN
         IF parsed.ok THEN Return(s, parsed.val)
         ELSE GenericExceptException(s, parsed.exc)

\* call_bedrock up to its first await
call_bedrock(model, prompt, api_key, region, max_retries) ==
    EnterAttempt([NewInvoke EXCEPT
                    !.route = "bedrock", !.max_retries = max_retries,
                    !.request = PostRequest(BedrockEndpoint(model, region),
                                            BedrockBody(model, prompt), api_key)], 0)

\* call_llm up to its first await
call_llm(config, prompt, max_retries) ==
    IF IsBedrock(config)
    THEN IF ~Truthy(config.api_key)
         THEN Raise([NewInvoke EXCEPT !.max_retries = max_retries], MissingCredential)
         ELSE call_bedrock(config.model, prompt, config.api_key,
                           RegionOf(config.endpoint), max_retries)
    ELSE EnterAttempt([NewInvoke EXCEPT
                        !.route = "generic", !.max_retries = max_retries,
                        !.request = PostRequest(
                            config.endpoint,
                            GenericPayload(config.endpoint, config.model, prompt),
                            IF Truthy(config.api_key) THEN config.api_key ELSE NoneVal)],
                      0)

\* the reply of the pending post arrives
OnReply(config, s, r) ==
    IF s.route = "bedrock" THEN BedrockOnReply(config.model, s, r)
    ELSE GenericOnReply(s, r)

\* the task is cancelled while the post or the sleep is pending: the
\* CancelledError thrown at the await matches neither except clause of
\* call_llm or call_bedrock and leaves the call
OnCancel(s) == Raise(s, CancelledError)

\* the pending sleep ends: continue with the next attempt
OnWake(s) == EnterAttempt(s, s.attempt + 1)

Finished(s) == s.pc \in {"ret", "raise"}

\* A reply other than the well-formed success of the family called.
IsFault(config, who, r) == r # Ok(Body(ExpectedPath(config), TextBy(who)))
\* the kind of a reply: the well-formed success, a 200 with another body, or
\* the error itself
ReplyKind(config, who, r) ==
    IF ~IsFault(config, who, r) THEN [kind |-> "ok"]
    ELSE IF r.kind = "http" /\ r.status = 200 THEN [kind |-> "body"]
    ELSE r
ReplyKinds == {[kind |-> "ok"], [kind |-> "body"], ErrStatus(429), ErrStatus(500), NetFail}

(***************************************************************************)
(* State.                                                                  *)
(***************************************************************************)
VARIABLES
    participants,    \* run's argument: the list of participant descriptors
    chairman,        \* run's argument: the chairman descriptor
    run_pc,          \* where run is: "idle", "called", "gather1", "gather2",
                     \* "chairman", "chairman_sleep", "returned", "raised"
    response_tasks,  \* the coroutines call_participant(i, ...), one per index
    responses,       \* what the first gather returned
    ranking_tasks,   \* the coroutines call_ranking(i, ...), one per index
    rankings,        \* what the second gather returned
    chair,           \* the chairman loop: attempt, the call_llm in progress, sleeps
    outcome,         \* what run returned or raised
    http_calls,      \* number of client.post calls issued so far
    budget,          \* the faults the backends of this run may still commit
    faults,          \* number of replies so far that were faults
    heard,           \* per branch whose history is kept: the replies its call_llm
                     \* received, in order
    overtaken,       \* per phase: a branch completed before one of lower index
    inv_cfg,         \* a direct call of call_llm: its descriptor
    inv_budget,      \*   its max_retries
    inv,             \*   its state
    trace,           \*   the replies it has received, in order
    request,         \* the HTTP request a handler of main.py was called with
    handler,         \* where that handler is: "none", "received", "get", "answered"
    response,        \* the HTTP response to it
    gets,            \* the discovery requests (client.get) issued so far
    request_counts,  \* main.py's request_counts: per client address, the readings
                     \* of datetime.now() recorded for its requests
    admitted,        \* per client address: the readings of the requests passed on
                     \* by call_next, in order
    readings,        \* the readings of datetime.now() since Init, in order
    last             \* the latest pass of rate_limit_middleware: the request, the
                     \* state it found and the status it answered

run_vars ==
    <<participants, chairman, run_pc, response_tasks, responses, ranking_tasks,
      rankings, chair, outcome, http_calls, budget, faults, heard, overtaken>>
invoke_vars == <<inv_cfg, inv_budget, inv, trace>>
api_vars == <<request, handler, response, gets>>
rate_vars == <<request_counts, admitted, readings, last>>
vars == <<run_vars, invoke_vars, api_vars, rate_vars>>

ParticipantCounts == {2, 3, 4}
\* the text of the user's question
Prompt == [k |-> "text", by |-> [role |-> "user", index |-> 0]]

\* len(l) of a list
ListLen(l) == Cardinality(DOMAIN l)
EmptyList == [i \in {} |-> NoVal]
\* the participant lists of length n: one descriptor throughout, or the
\* descriptors of Pool in turn from the k-th on
ParticipantLists(n) ==
    {[i \in 0..(n - 1) |-> Pool[k]] : k \in 1..3}
        \cup {[i \in 0..(n - 1) |-> Pool[((i + k) % 3) + 1]] : k \in 0..2}
\* what the backends of a run may do: a few faults anywhere, or branches
\* that never fail and a chairman backend that fails at will
ChairmanFaultScenario ==
    [branches |-> 0, chairman |-> max_chairman_retries * ChairmanMaxRetries,
     kinds |-> ReplyKinds]
FaultScenarios ==
    {[branches |-> MaxFaults, chairman |-> MaxChairmanFaults, kinds |-> ReplyKinds],
     ChairmanFaultScenario}
\* backends that throttle every request
ThrottlingScenario ==
    [branches |-> 2 * 3 * DefaultMaxRetries,
     chairman |-> max_chairman_retries * ChairmanMaxRetries,
     kinds |-> {ErrStatus(429)}]

Participant(i) == [role |-> "participant", index |-> i]
Ranker(i) == [role |-> "ranking", index |-> i]
Chairman == [role |-> "chairman", index |-> 0]
Direct == [role |-> "direct", index |-> 0]
\* the concurrent callers of call_llm in a run with the participant list ps
Branches(ps) == {Participant(i) : i \in DOMAIN ps} \cup {Ranker(i) : i \in DOMAIN ps}
\* no branch's replies are kept
NoHistory == [who \in {} |-> <<>>]

(***************************************************************************)
(* call_participant and call_ranking.                                      *)
(***************************************************************************)
NewTask(i) == [st |-> "new", index |-> i, prompt |-> NoVal, inv |-> NewInvoke, result |-> NoVal]

\* Mutant of ParticipantSettle: no except clause, the exception leaves the
\* coroutine.
ParticipantSettleNoCatch(task, s) ==
    IF s.pc = "ret"
    THEN [task EXCEPT !.st = "done", !.inv = s,
            !.result = [participant |-> task.index, response |-> s.val, error |-> NoneVal]]
    ELSE IF s.pc = "raise"
    THEN [task EXCEPT !.st = "failed", !.inv = s, !.result = s.val]
    ELSE [task EXCEPT !.st = "running", !.inv = s]

\* call_participant: what the try/except makes of the call_llm state s
ParticipantSettle(task, s) ==
    IF s.pc = "ret"
    THEN [task EXCEPT !.st = "done", !.inv = s,
            !.result = [participant |-> task.index, response |-> s.val, error |-> NoneVal]]
    ELSE IF s.pc = "raise" /\ ~IsException(s.val)
    THEN [task EXCEPT !.st = "failed", !.inv = s, !.result = s.val]
    ELSE IF s.pc = "raise"
    THEN [task EXCEPT !.st = "done", !.inv = s,
            !.result = [participant |-> task.index, response |-> ErrorMarker(s.val),
                        error |-> StrOf(s.val)]]
    ELSE [task EXCEPT !.st = "running", !.inv = s]

\* call_participant up to its first await
call_participant(participant_index, participant, prompt) ==
    ParticipantSettle([NewTask(participant_index) EXCEPT !.prompt = prompt],
                      call_llm(participant, prompt, DefaultMaxRetries))

\* Mutant of RankingPrompt: the responses of participants 0 and 1 exchanged.
RankingPromptSwapped(prompt, resps) ==
    [prompt |-> prompt, A |-> resps[1].response, B |-> resps[0].response,
     C |-> resps[2].response]

\* call_ranking: the ranking prompt, responses[0..2] under the labels A, B, C
RankingPrompt(prompt, resps) ==
    [prompt |-> prompt, A |-> resps[0].response, B |-> resps[1].response,
     C |-> resps[2].response]

\* call_ranking: what the try/except makes of the call_llm state s
RankingSettle(task, s) ==
    IF s.pc = "ret"
    THEN [task EXCEPT !.st = "done", !.inv = s,
            !.result = [participant |-> task.index, ranking |-> s.val, error |-> NoneVal]]
    ELSE IF s.pc = "raise" /\ ~IsException(s.val)
    THEN [task EXCEPT !.st = "failed", !.inv = s, !.result = s.val]
    ELSE IF s.pc = "raise"
    THEN [task EXCEPT !.st = "done", !.inv = s,
            !.result = [participant |-> task.index, ranking |-> ErrorMarker(s.val),
                        error |-> StrOf(s.val)]]
    ELSE [task EXCEPT !.st = "running", !.inv = s]

\* call_ranking up to its first await; building the prompt is outside the try
call_ranking(participant_index, participant, prompt, resps) ==
    IF ListLen(resps) < 3
    THEN [NewTask(participant_index) EXCEPT !.st = "failed", !.result = IndexError]
    ELSE RankingSettle(
            [NewTask(participant_index) EXCEPT !.prompt = RankingPrompt(prompt, resps)],
            call_llm(participant, RankingPrompt(prompt, resps), DefaultMaxRetries))

(***************************************************************************)
(* asyncio.gather.                                                         *)
(***************************************************************************)
\* Mutant of GatherReady: returns when the first awaitable has a result.
GatherReadyAny(tasks) == \E i \in DOMAIN tasks : tasks[i].st = "done"

\* every awaitable has a result
GatherReady(tasks) == \A i \in DOMAIN tasks : tasks[i].st = "done"
\* Mutant of GatherResults: the result of the first awaitable in every place.
GatherResultsAllFirst(tasks) == [i \in DOMAIN tasks |-> tasks[0].result]

\* Mutant of GatherResults: the results in the opposite order.
GatherResultsReversed(tasks) ==
    [i \in DOMAIN tasks |-> tasks[Cardinality(DOMAIN tasks) - 1 - i].result]

\* the results, in the order of the awaitables
GatherResults(tasks) == [i \in DOMAIN tasks |-> tasks[i].result]
\* an awaitable raised: gather raises its exception
GatherFailed(tasks) == \E i \in DOMAIN tasks : tasks[i].st = "failed"

(***************************************************************************)
(* The chairman loop of run.                                               *)
(***************************************************************************)
ChairmanPrompt(prompt, resps, ranks) ==
    [prompt |-> prompt, A |-> resps[0].response, B |-> resps[1].response,
     C |-> resps[2].response, r1 |-> ranks[0].ranking, r2 |-> ranks[1].ranking,
     r3 |-> ranks[2].ranking]

NewChair ==
    [attempt |-> 0, prompt |-> NoVal, inv |-> NewInvoke, sleeps |-> <<>>, calls |-> 0,
     reqs |-> 0]

RunResult(prompt, resps, ranks, final_output) ==
    [k |-> "return",
     value |-> [prompt |-> prompt, responses |-> resps, rankings |-> ranks,
                final_output |-> final_output]]

\* Mutant of ChairmanWaitTime: the same wait after every failed attempt.
ChairmanWaitTimeFlat(attempt) == ChairmanBackoffBase

\* wait_time = (2 ** attempt) * 3
ChairmanWaitTime(attempt) == Pow2(attempt) * ChairmanBackoffBase

\* Mutant of ChairmanSettle: the exception of the last attempt leaves run.
ChairmanSettleRaises(c, s, resps, ranks) ==
    IF s.pc = "ret"
    THEN [pc |-> "returned", chair |-> [c EXCEPT !.inv = s],
          outcome |-> [k |-> "return",
                       value |-> [prompt |-> Prompt, responses |-> resps,
                                  rankings |-> ranks, final_output |-> s.val]]]
    ELSE IF s.pc = "raise"
    THEN IF c.attempt < max_chairman_retries - 1
         THEN [pc |-> "chairman_sleep",
               chair |-> [c EXCEPT !.inv = s,
                                   !.sleeps = Append(@, Pow2(c.attempt) * ChairmanBackoffBase)],
               outcome |-> NoVal]
         ELSE [pc |-> "raised", chair |-> [c EXCEPT !.inv = s],
               outcome |-> [k |-> "raise", exc |-> s.val]]
    ELSE [pc |-> "chairman", chair |-> [c EXCEPT !.inv = s], outcome |-> NoVal]

\* Mutant of ChairmanSettle: the loop goes round once more than
\* max_chairman_retries.
ChairmanSettleOnceMore(c, s, resps, ranks) ==
    IF s.pc = "ret"
    THEN [pc |-> "returned", chair |-> [c EXCEPT !.inv = s],
          outcome |-> RunResult(Prompt, resps, ranks, s.val)]
    ELSE IF s.pc = "raise"
    THEN IF c.attempt < max_chairman_retries
         THEN [pc |-> "chairman_sleep",
               chair |-> [c EXCEPT !.inv = s,
                                   !.sleeps = Append(@, ChairmanWaitTime(c.attempt))],
               outcome |-> NoVal]
         ELSE [pc |-> "returned", chair |-> [c EXCEPT !.inv = s],
               outcome |-> RunResult(Prompt, resps, ranks, ConsensusErrorMarker(s.val))]
    ELSE [pc |-> "chairman", chair |-> [c EXCEPT !.inv = s], outcome |-> NoVal]

\* run: what the chairman loop makes of the call_llm state s of its attempt:
\* the next run_pc, the chairman loop state and run's outcome
ChairmanSettle(c, s, resps, ranks) ==
    IF s.pc = "ret"
    THEN [pc |-> "returned", chair |-> [c EXCEPT !.inv = s],
          outcome |-> RunResult(Prompt, resps, ranks, s.val)]
    ELSE IF s.pc = "raise"
    THEN IF c.attempt < max_chairman_retries - 1
         THEN [pc |-> "chairman_sleep",
               chair |-> [c EXCEPT !.inv = s,
                                   !.sleeps = Append(@, ChairmanWaitTime(c.attempt))],
               outcome |-> NoVal]
         ELSE [pc |-> "returned", chair |-> [c EXCEPT !.inv = s],
               outcome |-> RunResult(Prompt, resps, ranks, ConsensusErrorMarker(s.val))]
    ELSE [pc |-> "chairman", chair |-> [c EXCEPT !.inv = s], outcome |-> NoVal]

\* run: one pass of "final_output = await self.call_llm(chairman, chairman_prompt,
\* max_retries=3)" up to its first await
ChairmanAttempt(c, attempt, resps, ranks) ==
    LET s == call_llm(chairman, c.prompt, ChairmanMaxRetries) IN
    ChairmanSettle([c EXCEPT !.attempt = attempt, !.calls = @ + 1, !.reqs = @ + s.reqs],
                   s, resps, ranks)

\* the client addresses (request.client.host) requests come from
Clients == {"10.0.0.1", "10.0.0.2"}
\* the module as imported: request_counts = defaultdict(list), no request yet
NoTraffic ==
    /\ request_counts = [c \in Clients |-> <<>>]
    /\ admitted = [c \in Clients |-> <<>>]
    /\ readings = <<>>
    /\ last = NoVal

(***************************************************************************)
(* Actions of a run.                                                       *)
(***************************************************************************)
Init ==
    /\ \E n \in ParticipantCounts : participants \in ParticipantLists(n)
    /\ chairman \in RunDescriptors
    /\ run_pc = "called"
    /\ response_tasks = EmptyList
    /\ responses = EmptyList
    /\ ranking_tasks = EmptyList
    /\ rankings = EmptyList
    /\ chair = NewChair
    /\ outcome = NoVal
    /\ http_calls = 0
    /\ budget \in FaultScenarios
    /\ faults = [branches |-> 0, chairman |-> 0]
    /\ heard = NoHistory
    /\ overtaken = [p1 |-> FALSE, p2 |-> FALSE]
    /\ inv_cfg = D_openai
    /\ inv_budget = 0
    /\ inv = NewInvoke
    /\ trace = <<>>
    /\ request = NoVal
    /\ handler = "none"
    /\ response = NoVal
    /\ gets = <<>>
    /\ NoTraffic

\* A reply to the caller "who" of the backend "config", within the fault budget.
Reply(config, who, kind, r) ==
    /\ r \in Replies(who, RunPaths)
    /\ IsFault(config, who, r) =>
            faults[kind] < budget[kind]
    /\ ReplyKind(config, who, r) \in budget.kinds
    /\ faults' = IF IsFault(config, who, r) THEN [faults EXCEPT ![kind] = @ + 1] ELSE faults
    /\ heard' = IF who \in DOMAIN heard THEN [heard EXCEPT ![who] = Append(@, r)] ELSE heard

\* Branch "after.index" of "tasks" moves from "before" to "after".
NoteOrder(phase, tasks, before, after) ==
    IF /\ before.st # "done"
       /\ after.st = "done"
       /\ \E j \in DOMAIN tasks : j < after.index /\ tasks[j].st # "done"
    THEN [overtaken EXCEPT ![phase] = TRUE]
    ELSE overtaken

\* run: create the participant coroutines and await gather
RunStart ==
    /\ run_pc = "called"
    /\ response_tasks' = [i \in DOMAIN participants |-> NewTask(i)]
    /\ run_pc' = "gather1"
    /\ UNCHANGED <<participants, chairman, responses, ranking_tasks, rankings, chair,
                   outcome, http_calls, budget, faults, heard, overtaken, invoke_vars,
                   api_vars, rate_vars>>

\* the event loop starts call_participant(i, ...)
ParticipantStart(i) ==
    /\ i \in DOMAIN response_tasks
    /\ response_tasks[i].st = "new"
    /\ LET t == call_participant(i, participants[i], Prompt) IN
        /\ response_tasks' = [response_tasks EXCEPT ![i] = t]
        /\ http_calls' = http_calls + t.inv.reqs
        /\ overtaken' = NoteOrder("p1", response_tasks, response_tasks[i], t)
    /\ UNCHANGED <<participants, chairman, run_pc, responses, ranking_tasks, rankings,
                   chair, outcome, budget, faults, heard, invoke_vars, api_vars, rate_vars>>

\* the post of participant i is answered
ParticipantReply(i) ==
    /\ i \in DOMAIN response_tasks
    /\ response_tasks[i].st = "running"
    /\ response_tasks[i].inv.pc = "post"
    /\ \E r \in Replies(Participant(i), RunPaths) :
        /\ Reply(participants[i], Participant(i), "branches", r)
        /\ LET t == ParticipantSettle(response_tasks[i],
                                      OnReply(participants[i], response_tasks[i].inv, r)) IN
            /\ response_tasks' = [response_tasks EXCEPT ![i] = t]
            /\ overtaken' = NoteOrder("p1", response_tasks, response_tasks[i], t)
    /\ UNCHANGED <<participants, chairman, run_pc, responses, ranking_tasks, rankings,
                   chair, outcome, http_calls, budget, invoke_vars, api_vars, rate_vars>>

\* the backoff sleep of participant i ends
ParticipantWake(i) ==
    /\ i \in DOMAIN response_tasks
    /\ response_tasks[i].st = "running"
    /\ response_tasks[i].inv.pc = "sleep"
    /\ LET s == OnWake(response_tasks[i].inv)
           t == ParticipantSettle(response_tasks[i], s) IN
        /\ response_tasks' = [response_tasks EXCEPT ![i] = t]
        /\ http_calls' = http_calls + (s.reqs - response_tasks[i].inv.reqs)
        /\ overtaken' = NoteOrder("p1", response_tasks, response_tasks[i], t)
    /\ UNCHANGED <<participants, chairman, run_pc, responses, ranking_tasks, rankings,
                   chair, outcome, budget, faults, heard, invoke_vars, api_vars, rate_vars>>

\* run: the first gather returns; create the ranking coroutines and await gather
Gather1 ==
    /\ run_pc = "gather1"
    /\ GatherReady(response_tasks)
    /\ responses' = GatherResults(response_tasks)
    /\ ranking_tasks' = [i \in DOMAIN participants |-> NewTask(i)]
    /\ run_pc' = "gather2"
    /\ UNCHANGED <<participants, chairman, response_tasks, rankings, chair, outcome,
                   http_calls, budget, faults, heard, overtaken, invoke_vars, api_vars, rate_vars>>

\* the event loop starts call_ranking(i, ...)
RankingStart(i) ==
    /\ i \in DOMAIN ranking_tasks
    /\ ranking_tasks[i].st = "new"
    /\ LET t == call_ranking(i, participants[i], Prompt, responses) IN
        /\ ranking_tasks' = [ranking_tasks EXCEPT ![i] = t]
        /\ http_calls' = http_calls + t.inv.reqs
        /\ overtaken' = NoteOrder("p2", ranking_tasks, ranking_tasks[i], t)
    /\ UNCHANGED <<participants, chairman, run_pc, response_tasks, responses, rankings,
                   chair, outcome, budget, faults, heard, invoke_vars, api_vars, rate_vars>>

\* the post of ranker i is answered
RankingReply(i) ==
    /\ i \in DOMAIN ranking_tasks
    /\ ranking_tasks[i].st = "running"
    /\ ranking_tasks[i].inv.pc = "post"
    /\ \E r \in Replies(Ranker(i), RunPaths) :
        /\ Reply(participants[i], Ranker(i), "branches", r)
        /\ LET t == RankingSettle(ranking_tasks[i],
                                  OnReply(participants[i], ranking_tasks[i].inv, r)) IN
            /\ ranking_tasks' = [ranking_tasks EXCEPT ![i] = t]
            /\ overtaken' = NoteOrder("p2", ranking_tasks, ranking_tasks[i], t)
    /\ UNCHANGED <<participants, chairman, run_pc, response_tasks, responses, rankings,
                   chair, outcome, http_calls, budget, invoke_vars, api_vars, rate_vars>>

\* the backoff sleep of ranker i ends
RankingWake(i) ==
    /\ i \in DOMAIN ranking_tasks
    /\ ranking_tasks[i].st = "running"
    /\ ranking_tasks[i].inv.pc = "sleep"
    /\ LET s == OnWake(ranking_tasks[i].inv)
           t == RankingSettle(ranking_tasks[i], s) IN
        /\ ranking_tasks' = [ranking_tasks EXCEPT ![i] = t]
        /\ http_calls' = http_calls + (s.reqs - ranking_tasks[i].inv.reqs)
        /\ overtaken' = NoteOrder("p2", ranking_tasks, ranking_tasks[i], t)
    /\ UNCHANGED <<participants, chairman, run_pc, response_tasks, responses, rankings,
                   chair, outcome, budget, faults, heard, invoke_vars, api_vars, rate_vars>>

\* a gathered coroutine raised: gather raises and run raises with it
GatherRaise ==
    /\ \/ run_pc = "gather1" /\ GatherFailed(response_tasks)
       \/ run_pc = "gather2" /\ GatherFailed(ranking_tasks)
    /\ LET tasks == IF run_pc = "gather1" THEN response_tasks ELSE ranking_tasks
           i == CHOOSE j \in DOMAIN tasks : tasks[j].st = "failed" IN
        outcome' = [k |-> "raise", exc |-> tasks[i].result]
    /\ run_pc' = "raised"
    /\ UNCHANGED <<participants, chairman, response_tasks, responses, ranking_tasks,
                   rankings, chair, http_calls, budget, faults, heard, overtaken,
                   invoke_vars, api_vars, rate_vars>>

\* run: the second gather returns; build the chairman prompt and make the
\* first chairman call
Gather2 ==
    /\ run_pc = "gather2"
    /\ GatherReady(ranking_tasks)
    /\ LET ranks == GatherResults(ranking_tasks)
           c == [NewChair EXCEPT !.prompt = ChairmanPrompt(Prompt, responses, ranks)]
           n == ChairmanAttempt(c, 0, responses, ranks) IN
        /\ rankings' = ranks
        /\ chair' = n.chair
        /\ run_pc' = n.pc
        /\ outcome' = n.outcome
        /\ http_calls' = http_calls + n.chair.inv.reqs
    /\ UNCHANGED <<participants, chairman, response_tasks, responses, ranking_tasks,
                   budget, faults, heard, overtaken, invoke_vars, api_vars, rate_vars>>

\* the chairman's post is answered
ChairmanReply ==
    /\ run_pc = "chairman"
    /\ chair.inv.pc = "post"
    /\ \E r \in Replies(Chairman, RunPaths) :
        /\ Reply(chairman, Chairman, "chairman", r)
        /\ LET n == ChairmanSettle(chair, OnReply(chairman, chair.inv, r),
                                   responses, rankings) IN
            /\ chair' = n.chair
            /\ run_pc' = n.pc
            /\ outcome' = n.outcome
    /\ UNCHANGED <<participants, chairman, response_tasks, responses, ranking_tasks,
                   rankings, http_calls, budget, overtaken, invoke_vars, api_vars, rate_vars>>

\* a backoff sleep inside the chairman's call_llm ends
ChairmanWake ==
    /\ run_pc = "chairman"
    /\ chair.inv.pc = "sleep"
    /\ LET s == OnWake(chair.inv)
           n == ChairmanSettle([chair EXCEPT !.reqs = @ + (s.reqs - chair.inv.reqs)], s,
                               responses, rankings) IN
        /\ chair' = n.chair
        /\ run_pc' = n.pc
        /\ outcome' = n.outcome
        /\ http_calls' = http_calls + (s.reqs - chair.inv.reqs)
    /\ UNCHANGED <<participants, chairman, response_tasks, responses, ranking_tasks,
                   rankings, budget, faults, heard, overtaken, invoke_vars, api_vars, rate_vars>>

\* the sleep of the chairman loop ends: the next attempt of the loop
ChairmanRetry ==
    /\ run_pc = "chairman_sleep"
    /\ LET n == ChairmanAttempt(chair, chair.attempt + 1, responses, rankings) IN
        /\ chair' = n.chair
        /\ run_pc' = n.pc
        /\ outcome' = n.outcome
        /\ http_calls' = http_calls + n.chair.inv.reqs
    /\ UNCHANGED <<participants, chairman, response_tasks, responses, ranking_tasks,
                   rankings, budget, faults, heard, overtaken, invoke_vars, api_vars, rate_vars>>

Next ==
    \/ RunStart
    \/ \E i \in DOMAIN participants : ParticipantStart(i)
    \/ \E i \in DOMAIN participants : ParticipantReply(i)
    \/ \E i \in DOMAIN participants : ParticipantWake(i)
    \/ Gather1
    \/ \E i \in DOMAIN participants : RankingStart(i)
    \/ \E i \in DOMAIN participants : RankingReply(i)
    \/ \E i \in DOMAIN participants : RankingWake(i)
    \/ GatherRaise
    \/ Gather2
    \/ ChairmanReply
    \/ ChairmanWake
    \/ ChairmanRetry

Spec == Init /\ [][Next]_vars

(***************************************************************************)
(* A direct call of call_llm(config, prompt, max_retries), for every       *)
(* descriptor, every budget up to MaxBudget and every sequence of replies. *)
(***************************************************************************)
InitInvoke ==
    /\ participants = EmptyList
    /\ chairman = D_openai
    /\ run_pc = "idle"
    /\ response_tasks = EmptyList
    /\ responses = EmptyList
    /\ ranking_tasks = EmptyList
    /\ rankings = EmptyList
    /\ chair = NewChair
    /\ outcome = NoVal
    /\ http_calls = 0
    /\ budget = [branches |-> 0, chairman |-> 0, kinds |-> ReplyKinds]
    /\ faults = [branches |-> 0, chairman |-> 0]
    /\ heard = NoHistory
    /\ overtaken = [p1 |-> FALSE, p2 |-> FALSE]
    /\ inv_cfg \in Descriptors
    /\ inv_budget \in 1..MaxBudget
    /\ inv = NewInvoke
    /\ trace = <<>>
    /\ request = NoVal
    /\ handler = "none"
    /\ response = NoVal
    /\ gets = <<>>
    /\ NoTraffic

\* what the backend of a direct call answers with: the replies of a run with
\* every body, and a redirect with the well-formed body of the family called
DirectReplies(config) ==
    Replies(Direct, Paths) \cup {Redirect(Body(ExpectedPath(config), TextBy(Direct)))}

\* call_llm is called and runs up to its first await
InvokeCall ==
    /\ run_pc = "idle"
    /\ inv.pc = "new"
    /\ inv' = call_llm(inv_cfg, Prompt, inv_budget)
    /\ http_calls' = http_calls + inv'.reqs
    /\ UNCHANGED <<participants, chairman, run_pc, response_tasks, responses,
                   ranking_tasks, rankings, chair, outcome, budget, faults, heard,
                   overtaken, inv_cfg, inv_budget, trace, api_vars, rate_vars>>

\* the pending post is answered
InvokeReply ==
    /\ run_pc = "idle"
    /\ inv.pc = "post"
    /\ \E r \in DirectReplies(inv_cfg) :
        /\ inv' = OnReply(inv_cfg, inv, r)
        /\ trace' = Append(trace, r)
    /\ UNCHANGED <<run_vars, inv_cfg, inv_budget, api_vars, rate_vars>>

\* the pending backoff sleep ends
InvokeWake ==
    /\ run_pc = "idle"
    /\ inv.pc = "sleep"
    /\ inv' = OnWake(inv)
    /\ http_calls' = http_calls + (inv'.reqs - inv.reqs)
    /\ UNCHANGED <<participants, chairman, run_pc, response_tasks, responses,
                   ranking_tasks, rankings, chair, outcome, budget, faults, heard,
                   overtaken, inv_cfg, inv_budget, trace, api_vars, rate_vars>>

NextInvoke == InvokeCall \/ InvokeReply \/ InvokeWake

SpecInvoke == InitInvoke /\ [][NextInvoke]_vars

(***************************************************************************)
(* The handlers of main.py: POST /api/consensus and POST /api/models.      *)
(* handler is "received" when FastAPI calls the handler, "get" while its   *)
(* client.get is awaited and "answered" once the response is determined.   *)
(***************************************************************************)
TypeError == [type |-> "TypeError"]
HTTPException(status_code, detail) ==
    [type |-> "HTTPException", status |-> status_code, detail |-> detail]
\* a string literal of the source
Lit(s) == [k |-> "lit", s |-> s]

ConsensusRequest(prompt, parts, chair_config, file) ==
    [route |-> "consensus", prompt |-> prompt, participants |-> parts,
     chairman |-> chair_config, file |-> file]
ModelsRequest(endpoint_url, api_key, type, free_only) ==
    [route |-> "models", endpoint_url |-> endpoint_url, api_key |-> api_key,
     type |-> type, free_only |-> free_only]

\* FastAPI: a returned value is answered 200, a raised HTTPException with its
\* status code and detail, any other exception with 500
JSONResponse(status_code, content) == [status |-> status_code, content |-> content]
ExceptionResponse(e) ==
    IF e.type = "HTTPException" THEN JSONResponse(e.status, [detail |-> e.detail])
    ELSE JSONResponse(500, [unhandled |-> e])

\* the parameters of ConsensusEngine.run after self
RunParameters == <<"prompt", "participants", "chairman">>
\* a call with positional arguments of a function whose parameters have no
\* defaults: TypeError unless there is one argument per parameter
BindPositional(params, args) ==
    IF Len(args) = Len(params) THEN Returned(args) ELSE Raised(TypeError)

\* generate_consensus, up to its answer or, once engine.run(...) is called,
\* to the await of its coroutine ("run")
generate_consensus_step(req) ==
    IF ListLen(req.participants) # 3
    THEN [handler |-> "answered",
          response |-> ExceptionResponse(
                          HTTPException(400, Lit("Exactly 3 participants required")))]
    ELSE LET bound == BindPositional(RunParameters,
                        <<req.prompt, req.participants, req.chairman, req.file>>) IN
         IF bound.ok
         THEN [handler |-> "run", response |-> NoVal]
         ELSE [handler |-> "answered", response |-> ExceptionResponse(bound.exc)]

S_bedrock_host == <<"h","t","t","p","s",":","/","/","b","e","d","r","o","c","k",".">>
S_profiles_path ==
    <<".","a","m","a","z","o","n","a","w","s",".","c","o","m","/","i","n","f","e","r",
      "e","n","c","e","-","p","r","o","f","i","l","e","s">>
S_api_tags == <<"/","a","p","i","/","t","a","g","s">>
S_models == <<"/","m","o","d","e","l","s">>
S_openrouter == <<"o","p","e","n","r","o","u","t","e","r">>

\* A model identifier in a discovery response: its text, its place in string
\* order (what sorted compares) and whether it ends with ":free".
Model(name, ord, free) == [k |-> "model", name |-> name, ord |-> ord, free |-> free]

\* get_models: the common inference profiles returned when discovery found none
FallbackCatalog ==
    <<Model("us.anthropic.claude-3-5-sonnet-20241022-v2:0", 9, FALSE),
      Model("us.anthropic.claude-3-5-haiku-20241022-v1:0", 8, FALSE),
      Model("us.anthropic.claude-3-opus-20240229-v1:0", 11, FALSE),
      Model("us.anthropic.claude-3-sonnet-20240229-v1:0", 12, FALSE),
      Model("us.anthropic.claude-3-haiku-20240307-v1:0", 10, FALSE),
      Model("us.meta.llama3-3-70b-instruct-v1:0", 15, FALSE),
      Model("us.meta.llama3-2-90b-instruct-v1:0", 14, FALSE),
      Model("us.meta.llama3-2-11b-instruct-v1:0", 13, FALSE),
      Model("us.mistral.mistral-large-2407-v1:0", 16, FALSE),
      Model("us.amazon.nova-pro-v1:0", 7, FALSE),
      Model("us.amazon.nova-lite-v1:0", 5, FALSE),
      Model("us.amazon.nova-micro-v1:0", 6, FALSE),
      Model("anthropic.claude-3-5-sonnet-20241022-v2:0", 3, FALSE),
      Model("anthropic.claude-3-5-haiku-20241022-v1:0", 2, FALSE),
      Model("meta.llama3-3-70b-instruct-v1:0", 4, FALSE),
      Model("amazon.titan-text-premier-v1:0", 1, FALSE)>>

\* sorted(l)
RECURSIVE Sorted(_)
Sorted(l) ==
    IF Len(l) = 0 THEN <<>>
    ELSE LET i == CHOOSE a \in 1..Len(l) :
                    /\ \A b \in 1..Len(l) : l[a].ord <= l[b].ord
                    /\ \A b \in 1..(a - 1) : l[b].ord # l[a].ord
             rest == [b \in 1..(Len(l) - 1) |-> IF b < i THEN l[b] ELSE l[b + 1]] IN
         <<l[i]>> \o Sorted(rest)

\* One entry of the list in a discovery response: a dict whose keys hold a
\* model identifier or are absent (None).
Item(profile_id, profile_arn, name, id) ==
    [inferenceProfileId |-> profile_id, inferenceProfileArn |-> profile_arn,
     name |-> name, id |-> id]
FullItem(m) == Item(m, m, m, m)
M_one == Model("m1", 101, FALSE)
M_two == Model("m2", 102, FALSE)
M_free == Model("m0:free", 100, TRUE)
ItemLists ==
    {<<>>, <<FullItem(M_two), FullItem(M_one)>>, <<FullItem(M_one), FullItem(M_free)>>,
     <<Item(NoneVal, M_one, NoneVal, NoneVal)>>,
     <<Item(NoneVal, NoneVal, NoneVal, NoneVal)>>}
\* the JSON body of a discovery response: its one top-level key and the list
\* below it
DiscoveryBody(key, items) == [key |-> key, items |-> items]
DiscoveryKeys == {"inferenceProfileSummaries", "models", "data", "other"}
DiscoveryReplies ==
    {Ok(DiscoveryBody(key, items)) : key \in DiscoveryKeys, items \in ItemLists}
        \cup {Redirect(DiscoveryBody(key, items)) : key \in DiscoveryKeys, items \in ItemLists}
        \cup {ErrStatus(500), NetFail}

\* the exception client.get and raise_for_status make of a reply, if any
DiscoveryError(r) ==
    IF r.kind = "net" THEN Raised(NetworkError)
    ELSE IF ~IsSuccess(r.status) THEN Raised(HTTPStatusError(r.status))
    ELSE Returned(r.body)

\* get_models: except Exception as e: raise HTTPException(500, detail=str(e))
GetModelsExcept(e) == ExceptionResponse(HTTPException(500, StrOf(e)))

\* a client.get: its URL, its Authorization header and, once there, its reply
GetRequest(url, authorization) ==
    [url |-> url, authorization |-> authorization, reply |-> NoVal]

\* get_models up to its first await: the response, or the request of the
\* client.get it awaits
get_models_step(req) ==
    IF req.type = "bedrock"
    THEN IF ~Truthy(req.api_key)
         THEN [handler |-> "answered", get |-> NoVal,
               response |-> GetModelsExcept(
                               HTTPException(400, Lit("API key required for Bedrock")))]
         ELSE [handler |-> "get", response |-> NoVal,
               get |-> GetRequest(S_bedrock_host \o RegionOf(req.endpoint_url)
                                    \o S_profiles_path, req.api_key)]
    ELSE IF req.type = "ollama"
    THEN [handler |-> "get", response |-> NoVal,
          get |-> GetRequest(req.endpoint_url \o S_api_tags, NoneVal)]
    ELSE [handler |-> "get", response |-> NoVal,
          get |-> GetRequest(req.endpoint_url \o S_models,
                             IF Truthy(req.api_key) THEN req.api_key ELSE NoneVal)]

\* get_models, type bedrock: the profile ids of a discovery reply; any
\* exception of the call leaves none
BedrockProfiles(r) ==
    LET got == DiscoveryError(r) IN
    IF got.ok /\ got.val.key = "inferenceProfileSummaries"
    THEN LET ids == [i \in 1..Len(got.val.items) |->
                        IF got.val.items[i].inferenceProfileId # NoneVal
                        THEN got.val.items[i].inferenceProfileId
                        ELSE got.val.items[i].inferenceProfileArn] IN
         SelectSeq(ids, LAMBDA id : id # NoneVal)
    ELSE <<>>

\* model[key] for every entry of the list, or the KeyError of the first
\* entry without that key
Column(items, key) ==
    IF \E i \in 1..Len(items) : items[i][key] = NoneVal
    THEN Raised(KeyError(key))
    ELSE Returned([i \in 1..Len(items) |-> items[i][key]])

\* get_models from the reply of client.get on
get_models_reply(req, r) ==
    IF req.type = "bedrock"
    THEN LET profiles == BedrockProfiles(r) IN
         JSONResponse(200, [models |-> Sorted(IF Len(profiles) = 0 THEN FallbackCatalog
                                              ELSE profiles)])
    ELSE LET got == DiscoveryError(r) IN
         IF ~got.ok THEN GetModelsExcept(got.exc)
         ELSE IF req.type = "ollama"
         THEN LET names == Column(IF got.val.key = "models" THEN got.val.items ELSE <<>>,
                                  "name") IN
              IF names.ok THEN JSONResponse(200, [models |-> names.val])
              ELSE GetModelsExcept(names.exc)
         ELSE IF got.val.key = "data"
         THEN LET ids == Column(got.val.items, "id") IN
              IF ~ids.ok THEN GetModelsExcept(ids.exc)
              ELSE IF req.free_only /\ Contains(req.endpoint_url, S_openrouter)
              THEN JSONResponse(200, [models |-> SelectSeq(ids.val, LAMBDA m : m.free)])
              ELSE JSONResponse(200, [models |-> ids.val])
         ELSE IF got.val.key = "models"
         THEN JSONResponse(200, [models |-> got.val.items])
         ELSE JSONResponse(200, [models |-> <<>>])

\* the requests the handlers are called with
ApiRequests ==
    {ConsensusRequest(Prompt, ps, c, NoneVal) :
        ps \in UNION {ParticipantLists(n) : n \in ParticipantCounts}, c \in RunDescriptors}
    \cup {ModelsRequest(e, key, type, free_only) :
            e \in {E_aws, E_openrouter, E_local}, key \in {NoneVal, Some(<<>>), Key},
            type \in {"bedrock", "ollama", "openai"}, free_only \in BOOLEAN}

InitApi ==
    /\ participants = EmptyList
    /\ chairman = D_openai
    /\ run_pc = "idle"
    /\ response_tasks = EmptyList
    /\ responses = EmptyList
    /\ ranking_tasks = EmptyList
    /\ rankings = EmptyList
    /\ chair = NewChair
    /\ outcome = NoVal
    /\ http_calls = 0
    /\ budget = [branches |-> 0, chairman |-> 0, kinds |-> ReplyKinds]
    /\ faults = [branches |-> 0, chairman |-> 0]
    /\ heard = NoHistory
    /\ overtaken = [p1 |-> FALSE, p2 |-> FALSE]
    /\ inv_cfg = D_openai
    /\ inv_budget = 0
    /\ inv = NewInvoke
    /\ trace = <<>>
    /\ request \in ApiRequests
    /\ handler = "received"
    /\ response = NoVal
    /\ gets = <<>>
    /\ NoTraffic

\* POST /api/consensus
generate_consensus ==
    /\ handler = "received"
    /\ request.route = "consensus"
    /\ LET n == generate_consensus_step(request) IN
        /\ handler' = n.handler
        /\ response' = n.response
        /\ IF n.handler = "run"
           THEN /\ run_pc' = "called"
                /\ participants' = request.participants
                /\ chairman' = request.chairman
           ELSE UNCHANGED <<run_pc, participants, chairman>>
    /\ UNCHANGED <<response_tasks, responses, ranking_tasks, rankings, chair, outcome,
                   http_calls, budget, faults, heard, overtaken, invoke_vars, request,
                   gets, rate_vars>>

\* POST /api/models, up to the first await
get_models ==
    /\ handler = "received"
    /\ request.route = "models"
    /\ LET n == get_models_step(request) IN
        /\ handler' = n.handler
        /\ response' = n.response
        /\ gets' = IF n.handler = "get" THEN Append(gets, n.get) ELSE gets
    /\ UNCHANGED <<run_vars, invoke_vars, request, rate_vars>>

\* POST /api/models: the discovery request is answered
GetModelsReply ==
    /\ handler = "get"
    /\ \E r \in DiscoveryReplies :
        /\ response' = get_models_reply(request, r)
        /\ gets' = [gets EXCEPT ![Len(gets)].reply = r]
    /\ handler' = "answered"
    /\ UNCHANGED <<run_vars, invoke_vars, request, rate_vars>>

NextApi == generate_consensus \/ get_models \/ GetModelsReply

SpecApi == InitApi /\ [][NextApi]_vars

(***************************************************************************)
(* A run of 3 participants in which one branch may be cancelled while it   *)
(* awaits its post or its backoff sleep, as a timeout imposed from outside *)
(* on that branch's task would do.                                         *)
(***************************************************************************)
InitCancel == Init /\ ListLen(participants) = 3

\* no branch of the run has been cancelled so far
NoneCancelled ==
    /\ \A j \in DOMAIN response_tasks : response_tasks[j].inv.val # CancelledError
    /\ \A j \in DOMAIN ranking_tasks : ranking_tasks[j].inv.val # CancelledError

\* the task of participant i is cancelled while gather awaits it
CancelParticipant(i) ==
    /\ run_pc = "gather1"
    /\ NoneCancelled
    /\ i \in DOMAIN response_tasks
    /\ response_tasks[i].st = "running"
    /\ response_tasks' =
          [response_tasks EXCEPT
              ![i] = ParticipantSettle(response_tasks[i], OnCancel(response_tasks[i].inv))]
    /\ UNCHANGED <<participants, chairman, run_pc, responses, ranking_tasks, rankings,
                   chair, outcome, http_calls, budget, faults, heard, overtaken,
                   invoke_vars, api_vars, rate_vars>>

\* the task of ranker i is cancelled while gather awaits it
CancelRanking(i) ==
    /\ run_pc = "gather2"
    /\ NoneCancelled
    /\ i \in DOMAIN ranking_tasks
    /\ ranking_tasks[i].st = "running"
    /\ ranking_tasks' =
          [ranking_tasks EXCEPT
              ![i] = RankingSettle(ranking_tasks[i], OnCancel(ranking_tasks[i].inv))]
    /\ UNCHANGED <<participants, chairman, run_pc, response_tasks, responses, rankings,
                   chair, outcome, http_calls, budget, faults, heard, overtaken,
                   invoke_vars, api_vars, rate_vars>>

NextCancel ==
    \/ Next
    \/ \E i \in DOMAIN participants : CancelParticipant(i)
    \/ \E i \in DOMAIN participants : CancelRanking(i)

SpecCancel == InitCancel /\ [][NextCancel]_vars

(***************************************************************************)
(* A run that keeps, for every participant and ranking branch, the replies *)
(* its backend gave it, so that the result can be compared with what these *)
(* replies determine.                                                      *)
(***************************************************************************)
InitDet ==
    /\ \E n \in {2, 3} : participants \in ParticipantLists(n)
    /\ chairman \in RunDescriptors
    /\ run_pc = "called"
    /\ response_tasks = EmptyList
    /\ responses = EmptyList
    /\ ranking_tasks = EmptyList
    /\ rankings = EmptyList
    /\ chair = NewChair
    /\ outcome = NoVal
    /\ http_calls = 0
    /\ budget \in FaultScenarios
    /\ faults = [branches |-> 0, chairman |-> 0]
    /\ heard = [who \in Branches(participants) |-> <<>>]
    /\ overtaken = [p1 |-> FALSE, p2 |-> FALSE]
    /\ inv_cfg = D_openai
    /\ inv_budget = 0
    /\ inv = NewInvoke
    /\ trace = <<>>
    /\ request = NoVal
    /\ handler = "none"
    /\ response = NoVal
    /\ gets = <<>>
    /\ NoTraffic

SpecDet == InitDet /\ [][Next]_vars

(***************************************************************************)
(* A run of 3 participants scheduled by the event loop: every post is      *)
(* answered, every sleep ends and every ready coroutine is resumed, so a   *)
(* step that stays possible is eventually taken.  The backends throttle    *)
(* every request, or the chairman's alone fails at will.  A run of 2       *)
(* participants, which only a direct call of run admits, is kept beside    *)
(* it.                                                                     *)
(***************************************************************************)
\* participants that all reach their backend, or one of which has no credential
LiveLists ==
    {[i \in 0..(n - 1) |-> D_openai] : n \in {2, 3}} \cup {[i \in 0..2 |-> Pool[i + 1]]}

InitLive ==
    /\ participants \in LiveLists
    /\ chairman \in {D_openai, D_bedrock_nokey}
    /\ run_pc = "called"
    /\ response_tasks = EmptyList
    /\ responses = EmptyList
    /\ ranking_tasks = EmptyList
    /\ rankings = EmptyList
    /\ chair = NewChair
    /\ outcome = NoVal
    /\ http_calls = 0
    /\ budget \in {ChairmanFaultScenario, ThrottlingScenario}
    /\ faults = [branches |-> 0, chairman |-> 0]
    /\ heard = NoHistory
    /\ overtaken = [p1 |-> FALSE, p2 |-> FALSE]
    /\ inv_cfg = D_openai
    /\ inv_budget = 0
    /\ inv = NewInvoke
    /\ trace = <<>>
    /\ request = NoVal
    /\ handler = "none"
    /\ response = NoVal
    /\ gets = <<>>
    /\ NoTraffic

SpecLive == InitLive /\ [][Next]_vars /\ WF_vars(Next)

(***************************************************************************)
(* rate_limit_middleware, the outermost middleware: every request passes   *)
(* through it before any other middleware and any handler.  Time is in     *)
(* minutes; a reading of datetime.now() is whatever the local wall clock   *)
(* shows, which may be earlier than a previous reading (the clock set      *)
(* back, the end of daylight saving time).  The body of the middleware     *)
(* down to call_next has no await and is one step.                         *)
(***************************************************************************)
\* [req_time for req_time in request_counts[client_ip] if now - req_time < RATE_WINDOW]
CleanOld(req_times, now) == SelectSeq(req_times, LAMBDA req_time : now - req_time < RATE_WINDOW)

\* rate_limit_middleware down to its return or its call_next: the new
\* request_counts, and the 429 response or the request passed on
rate_limit_step(counts, client_ip, now) ==
    LET cleaned == [counts EXCEPT ![client_ip] = CleanOld(counts[client_ip], now)] IN
    IF Len(cleaned[client_ip]) >= RATE_LIMIT
    THEN [request_counts |-> cleaned, call_next |-> FALSE,
          response |-> JSONResponse(429,
                          [detail |-> Lit("Rate limit exceeded. Please try again later.")])]
    ELSE [request_counts |-> [cleaned EXCEPT ![client_ip] = Append(@, now)],
          call_next |-> TRUE, response |-> NoVal]

\* the limiter after k further requests of client_ip, all at the reading now
\* (the first half of the burst, then the second; the test on the first half
\* is always true and makes it be computed before the second is started)
RECURSIVE AfterBurst(_, _, _, _)
AfterBurst(counts, client_ip, now, k) ==
    IF k = 0 THEN counts
    ELSE IF k = 1 THEN rate_limit_step(counts, client_ip, now).request_counts
    ELSE LET half == AfterBurst(counts, client_ip, now, k \div 2) IN
         IF Len(half[client_ip]) >= 0
         THEN AfterBurst(half, client_ip, now, k - (k \div 2))
         ELSE half

\* the readings of the clock
Times == {1, 2, 15, 16, 17}
BurstTime == 1
\* the sizes of the opening bursts (at most RATE_LIMIT, so all are passed on)
Bursts == {0, RATE_LIMIT - 1, RATE_LIMIT}

\* The limiter after each client's opening burst at BurstTime.
InitRate ==
    /\ participants = EmptyList
    /\ chairman = D_openai
    /\ run_pc = "idle"
    /\ response_tasks = EmptyList
    /\ responses = EmptyList
    /\ ranking_tasks = EmptyList
    /\ rankings = EmptyList
    /\ chair = NewChair
    /\ outcome = NoVal
    /\ http_calls = 0
    /\ budget = [branches |-> 0, chairman |-> 0, kinds |-> ReplyKinds]
    /\ faults = [branches |-> 0, chairman |-> 0]
    /\ heard = NoHistory
    /\ overtaken = [p1 |-> FALSE, p2 |-> FALSE]
    /\ inv_cfg = D_openai
    /\ inv_budget = 0
    /\ inv = NewInvoke
    /\ trace = <<>>
    /\ request = NoVal
    /\ handler = "none"
    /\ response = NoVal
    /\ gets = <<>>
    /\ \E ka \in Bursts, kb \in {0, RATE_LIMIT} :
        /\ request_counts =
                AfterBurst(AfterBurst([c \in Clients |-> <<>>], "10.0.0.1", BurstTime, ka),
                           "10.0.0.2", BurstTime, kb)
        /\ admitted = request_counts
        /\ readings = <<>>
    /\ last = NoVal

\* a request of client_ip reaches the middleware when the clock reads now
rate_limit_middleware(client_ip, now) ==
    /\ Len(readings) < MaxArrivals
    /\ LET n == rate_limit_step(request_counts, client_ip, now) IN
        /\ request_counts' = n.request_counts
        /\ admitted' = IF n.call_next THEN [admitted EXCEPT ![client_ip] = Append(@, now)]
                       ELSE admitted
        /\ last' = [client_ip |-> client_ip, now |-> now, call_next |-> n.call_next,
                    response |-> n.response, request_counts |-> request_counts,
                    admitted |-> admitted]
    /\ readings' = Append(readings, now)
    /\ UNCHANGED <<run_vars, invoke_vars, api_vars>>

NextRate == \E client_ip \in Clients, now \in Times : rate_limit_middleware(client_ip, now)

SpecRate == InitRate /\ [][NextRate]_vars

(***************************************************************************)
(* Properties.                                                             *)
(***************************************************************************)
N == ListLen(participants)
Returned3 == run_pc = "returned" /\ N = 3
NoKeyBedrock(config) == IsBedrock(config) /\ ~Truthy(config.api_key)

\* The caller whose backend produced the text v (a parsed text or a
\* stringified body).
Origin(v) == IF v.k = "text" THEN v.by ELSE v.of.text.by

\* The payload v with error field e is an outcome of the caller "who" on the
\* backend "config".
ProducedBy(v, e, who, config) ==
    IF e = NoneVal
    THEN v.k \in {"text", "str"} /\ Origin(v) = who /\ ~NoKeyBedrock(config)
    ELSE /\ v = [k |-> "marker", prefix |-> "[Error: ", reason |-> e]
         /\ (e = StrOf(MissingCredential)) = NoKeyBedrock(config)
         /\ (e.of.type = "KeyError") => IsBedrock(config)

\* C1: a run with exactly 3 participants returns 3 responses and 3 rankings;
\* entry i of each carries participant index i and is an outcome of the i-th
\* input participant, whatever the order in which the branches completed.
C1_IndexAligned ==
    Returned3 =>
        LET v == outcome.value IN
        /\ DOMAIN v.responses = 0..2
        /\ DOMAIN v.rankings = 0..2
        /\ \A i \in 0..2 :
            /\ v.responses[i].participant = i
            /\ v.rankings[i].participant = i
            /\ ProducedBy(v.responses[i].response, v.responses[i].error,
                          Participant(i), participants[i])
            /\ ProducedBy(v.rankings[i].ranking, v.rankings[i].error,
                          Ranker(i), participants[i])

\* C1 witness: a returned run of 3 live backends in which, in both phases, a
\* branch completed before a branch of lower index.
C1_Witness ==
    /\ Returned3
    /\ overtaken.p1 /\ overtaken.p2
    /\ \A i \in 0..2 : response_tasks[i].inv.reqs > 0 /\ ranking_tasks[i].inv.reqs > 0

\* The slot a finished branch filled: error is None exactly when its call_llm
\* returned, and after a failure the payload is "[Error: <reason>]".
SlotFaithful(task, field) ==
    task.st = "done" =>
        /\ (task.result.error = NoneVal) = (task.inv.pc = "ret")
        /\ task.inv.pc = "ret" => task.result[field] = task.inv.val
        /\ task.inv.pc = "raise" =>
            /\ task.result.error = StrOf(task.inv.val)
            /\ task.result[field] =
                  [k |-> "marker", prefix |-> "[Error: ", reason |-> StrOf(task.inv.val)]

\* C2: a failing participant or ranking call leaves an error-annotated slot
\* and stops nothing: the run of 3 participants does not raise, and when it
\* has returned every slot holds its own branch's outcome, every ranking
\* branch was started and the chairman was invoked.
C2_FaultIsolation ==
    N = 3 =>
        /\ run_pc # "raised"
        /\ \A i \in DOMAIN response_tasks :
            /\ response_tasks[i].st # "failed"
            /\ SlotFaithful(response_tasks[i], "response")
        /\ \A i \in DOMAIN ranking_tasks :
            /\ ranking_tasks[i].st # "failed"
            /\ SlotFaithful(ranking_tasks[i], "ranking")
        /\ run_pc = "returned" =>
            /\ \A i \in 0..2 :
                /\ response_tasks[i].st = "done"
                /\ ranking_tasks[i].st = "done"
                /\ outcome.value.responses[i] = response_tasks[i].result
                /\ outcome.value.rankings[i] = ranking_tasks[i].result
            /\ chair.calls >= 1

\* C2 witness: a returned run in which a participant failed on a network
\* error, another participant succeeded and a ranking call failed.
C2_Witness ==
    /\ Returned3
    /\ \E i \in 0..2 :
        /\ response_tasks[i].inv.val = NetworkError
        /\ outcome.value.responses[i].error # NoneVal
    /\ \E j \in 0..2 : outcome.value.responses[j].error = NoneVal
    /\ \E k \in 0..2 : outcome.value.rankings[k].error # NoneVal

InvalidParticipantCount == [type |-> "InvalidParticipantCount"]

\* C3 (as claimed): run with a participant count other than 3 fails with
\* InvalidParticipantCount and issues no HTTP request.
C3_RejectsBeforeNetwork ==
    N # 3 =>
        /\ http_calls = 0
        /\ run_pc # "returned"
        /\ run_pc = "raised" => outcome.exc = InvalidParticipantCount

\* C4: a run of 3 participants never raises; when every chairman attempt has
\* failed, final_output is "[Error generating consensus: <last error>]" and
\* the result still carries its 3 responses and 3 rankings.
C4_NeverRaises ==
    N = 3 =>
        /\ run_pc # "raised"
        /\ run_pc = "returned" =>
            /\ outcome.k = "return"
            /\ DOMAIN outcome.value.responses = 0..2
            /\ DOMAIN outcome.value.rankings = 0..2
            /\ chair.inv.pc = "ret" => outcome.value.final_output = chair.inv.val
            /\ chair.inv.pc = "raise" =>
                /\ chair.calls = 5
                /\ outcome.value.final_output =
                      [k |-> "marker", prefix |-> "[Error generating consensus: ",
                       reason |-> StrOf(chair.inv.val)]

\* C4 witness: a returned run whose 5 chairman attempts all ended in a
\* network error.
C4_Witness ==
    /\ Returned3
    /\ chair.calls = 5
    /\ chair.inv.pc = "raise"
    /\ chair.inv.val = NetworkError

\* C5: no ranking branch exists, and so no ranking request is issued, before
\* all phase-1 branches have completed; the chairman is not invoked before
\* all ranking branches have completed.
C5_PhaseBarriers ==
    /\ (ranking_tasks # EmptyList \/ \E i \in DOMAIN ranking_tasks : ranking_tasks[i].inv.reqs > 0)
        => /\ DOMAIN response_tasks = DOMAIN participants
           /\ \A j \in DOMAIN response_tasks : response_tasks[j].st = "done"
    /\ (chair.calls > 0 \/ chair.reqs > 0 \/ run_pc \in {"chairman", "chairman_sleep", "returned"})
        => /\ DOMAIN ranking_tasks = DOMAIN participants
           /\ \A j \in DOMAIN ranking_tasks : ranking_tasks[j].st = "done"

\* C5 witness: the chairman's request is pending after three ranking branches
\* that each issued a request, one of them overtaking another.
C5_Witness ==
    /\ N = 3
    /\ run_pc = "chairman"
    /\ chair.inv.pc = "post"
    /\ overtaken.p1
    /\ \A i \in 0..2 : ranking_tasks[i].inv.reqs > 0

\* The error a reply amounts to for the called family.
ErrorOfReply(config, r) ==
    IF r.kind = "net" THEN NetworkError
    ELSE IF ~IsSuccess(r.status) THEN HTTPStatusError(r.status)
    ELSE KeyError(ExpectedPath(config))

Last(s) == s[Len(s)]

\* C6: one call with budget B >= 1 issues at most B requests; when all B
\* attempts failed it raises the last observed error; every sleep is
\* followed by a further attempt, so none happens after the final one.
C6_BoundedAttempts ==
    inv_budget >= 1 =>
        /\ inv.reqs <= inv_budget
        /\ Len(trace) <= inv.reqs
        /\ inv.pc = "sleep" => inv.reqs < inv_budget
        /\ (Finished(inv) /\ inv.reqs >= 1) => Len(inv.sleeps) = inv.reqs - 1
        /\ (inv.pc = "raise" /\ Len(trace) = inv_budget) =>
                inv.val = ErrorOfReply(inv_cfg, Last(trace))

\* C6 witness: a Bedrock call with budget 3 that saw 429, 500 and a network
\* error and raised.
C6_Witness ==
    /\ inv_budget = 3
    /\ inv.route = "bedrock"
    /\ trace = <<ErrStatus(429), ErrStatus(500), NetFail>>
    /\ inv.pc = "raise"
    /\ inv.reqs = 3

\* the replies 429, ..., 429 (n times) and then the expected success
ThrottledThenOk(n) ==
    [k \in 1..(n + 1) |->
        IF k <= n THEN ErrStatus(429)
        ELSE Ok(Body(ExpectedPath(inv_cfg), TextBy(Direct)))]

\* C7: after 429 on attempts 0..B-2 and a success on attempt B-1 the call
\* returns the success's text, having slept 2, 4, 8, ... seconds, once per 429.
C7_ThrottleBackoff ==
    /\ (Len(trace) = inv_budget /\ trace = ThrottledThenOk(inv_budget - 1)) =>
        /\ inv.pc = "ret"
        /\ inv.val = TextBy(Direct)
        /\ inv.reqs = inv_budget
        /\ inv.sleeps = SubSeq(<<2, 4, 8, 16, 32>>, 1, inv_budget - 1)
    /\ (/\ trace # <<>>
        /\ Len(trace) < inv_budget
        /\ \A k \in 1..Len(trace) : trace[k] = ErrStatus(429)) =>
        /\ inv.pc \in {"post", "sleep"}
        /\ inv.sleeps = SubSeq(<<2, 4, 8, 16, 32>>, 1, Len(trace))

\* C7 witness: budget 3 on the Bedrock path, 429, 429, success.
C7_Witness ==
    /\ inv_budget = 3
    /\ inv.route = "bedrock"
    /\ trace = ThrottledThenOk(2)
    /\ inv.pc = "ret"
    /\ inv.sleeps = <<2, 4>>

TransportFailure(r) == r.kind = "net" \/ (r.status >= 400 /\ r.status # 429)

\* C8 (as claimed): on either path a non-429 error status or a network
\* exception on an attempt that is not the last is followed by a flat 2 s
\* sleep and another attempt; it is raised only when no attempts remain.
C8_FlatRetry ==
    (trace # <<>> /\ TransportFailure(Last(trace)) /\ Len(trace) < inv_budget) =>
        /\ inv.pc # "raise"
        /\ Len(inv.sleeps) = Len(trace)
        /\ Last(inv.sleeps) = 2

\* the top-level keys the parser of the called family reads
ParsedPaths(config) ==
    IF ~IsBedrock(config) THEN {"choices", "response"}
    ELSE IF BedrockFamily(config.model) = "generic" THEN {"content", "output"}
    ELSE {ExpectedPath(config)}

\* C9 (as claimed): a success whose body lacks the text path of the family is
\* answered with the stringified body on that attempt: no exception, no
\* sleep, no further request.
C9_ParseFailureReturned ==
    (/\ trace # <<>>
     /\ Last(trace).kind = "http"
     /\ Last(trace).status = 200
     /\ Last(trace).body.path \notin ParsedPaths(inv_cfg)) =>
        /\ inv.pc = "ret"
        /\ inv.val = StrOf(Last(trace).body)
        /\ inv.reqs = Len(trace)

\* C10 (as claimed): a Bedrock descriptor without a credential fails without
\* any HTTP request, is not retried and incurs no backoff sleep, as a
\* participant, as a ranker and as the chairman.
C10_MissingCredentialFatal ==
    /\ \A i \in DOMAIN response_tasks :
        (NoKeyBedrock(participants[i]) /\ response_tasks[i].st # "new") =>
            /\ response_tasks[i].result.error = StrOf(MissingCredential)
            /\ response_tasks[i].inv.reqs = 0
            /\ response_tasks[i].inv.sleeps = <<>>
    /\ \A i \in DOMAIN ranking_tasks :
        (NoKeyBedrock(participants[i]) /\ ranking_tasks[i].st = "done") =>
            /\ ranking_tasks[i].result.error = StrOf(MissingCredential)
            /\ ranking_tasks[i].inv.reqs = 0
            /\ ranking_tasks[i].inv.sleeps = <<>>
    /\ (NoKeyBedrock(chairman) /\ chair.calls > 0) =>
            /\ chair.inv.val = MissingCredential
            /\ chair.reqs = 0
            /\ chair.calls = 1
            /\ chair.sleeps = <<>>

ChairmanWaits == <<3, 6, 12, 24>>

\* The chairman loop: at most 5 calls of call_llm, each with max_retries 3;
\* a sleep of 3, 6, 12, 24 after failed attempts 0..3 and none after the 5th;
\* the first call that returns ends the loop and its text is final_output.
ChairmanLoopState ==
    /\ chair.calls <= 5
    /\ chair.calls > 0 => chair.inv.max_retries = 3 /\ chair.calls = chair.attempt + 1
    /\ run_pc = "chairman" => chair.sleeps = SubSeq(ChairmanWaits, 1, chair.attempt)
    /\ run_pc = "chairman_sleep" =>
        /\ chair.attempt <= 3
        /\ chair.inv.pc = "raise"
        /\ chair.sleeps = SubSeq(ChairmanWaits, 1, chair.attempt + 1)
    /\ (run_pc = "returned" /\ chair.inv.pc = "ret") =>
        /\ outcome.value.final_output = chair.inv.val
        /\ chair.sleeps = SubSeq(ChairmanWaits, 1, chair.calls - 1)
    /\ (run_pc = "returned" /\ chair.inv.pc = "raise") =>
        /\ chair.calls = 5
        /\ chair.sleeps = ChairmanWaits

\* A started branch is one call of call_llm with max_retries 3.
BranchOneInvoke(tasks) ==
    \A i \in DOMAIN tasks :
        tasks[i].st \in {"running", "done"} =>
            /\ tasks[i].inv.max_retries = 3
            /\ tasks[i].inv.reqs <= 3
            /\ tasks[i].st = "done" <=> Finished(tasks[i].inv)

\* A branch that has its result, a failure included, is not run again.
BranchesStayDone ==
    /\ \A i \in DOMAIN response_tasks :
        response_tasks[i].st = "done" => response_tasks'[i] = response_tasks[i]
    /\ \A i \in DOMAIN ranking_tasks :
        ranking_tasks[i].st = "done" => ranking_tasks'[i] = ranking_tasks[i]
    /\ run_pc = "returned" => chair' = chair

\* C11: the chairman is called in an outer loop of at most 5 calls of budget
\* 3 that stops at the first call that returns, whose text is final_output,
\* sleeping 3, 6, 12, 24 seconds after failed attempts 0..3 and not after the
\* 5th; every participant and ranking branch is exactly one call of budget 3
\* and is never called again once it has failed.
C11_ChairmanOuterLoop ==
    /\ [](ChairmanLoopState /\ BranchOneInvoke(response_tasks)
            /\ BranchOneInvoke(ranking_tasks))
    /\ [][BranchesStayDone]_vars

\* C11 witness: the chairman's third call returned after two failed ones and
\* sleeps of 3 and 6, in a run in which a participant's only call failed.
C11_Witness ==
    /\ Returned3
    /\ chair.calls = 3
    /\ chair.sleeps = <<3, 6>>
    /\ chair.inv.pc = "ret"
    /\ outcome.value.final_output = TextBy(Chairman)
    /\ \E i \in 0..2 : response_tasks[i].inv.pc = "raise"

\* the ConsensusResult of a run: prompt, 3 responses, 3 rankings, final output
IsConsensusResult(v) ==
    /\ DOMAIN v = {"prompt", "responses", "rankings", "final_output"}
    /\ ListLen(v.responses) = 3
    /\ ListLen(v.rankings) = 3

\* C12 (as claimed): POST /api/consensus answers 400 when the participant
\* count is not 3, and a request with exactly 3 participants is handed to the
\* engine and answered 200 with the ConsensusResult, never with an error.
C12_ConsensusStatus ==
    (request # NoVal /\ request.route = "consensus" /\ handler # "received") =>
        IF ListLen(request.participants) # 3
        THEN handler = "answered" /\ response.status = 400
        ELSE \/ handler = "run" /\ run_pc # "idle"
             \/ /\ handler = "answered"
                /\ response.status = 200
                /\ IsConsensusResult(response.content)

\* C13 (as claimed): POST /api/models with type bedrock and no credential is
\* answered 400, not 500, without any discovery request; a discovery of
\* another type whose request fails is answered 500.
C13_MissingCredential400 ==
    (request # NoVal /\ request.route = "models" /\ handler = "answered") =>
        /\ (request.type = "bedrock" /\ ~Truthy(request.api_key)) =>
            /\ response.status = 400
            /\ gets = <<>>
        /\ (request.type # "bedrock" /\ ~DiscoveryError(gets[1].reply).ok) =>
            response.status = 500

\* The family the descriptor is claimed to get: its type when that is bedrock
\* or ollama, else the one inferred from the lower-cased endpoint.
ClaimedFamily(config) ==
    IF config.type = "bedrock" THEN "bedrock"
    ELSE IF config.type = "ollama" THEN "ollama"
    ELSE IF Contains(Lower(config.endpoint), S_bedrock) THEN "bedrock"
    ELSE IF \/ Contains(Lower(config.endpoint), S_ollama)
            \/ Contains(Lower(config.endpoint), S_11434) THEN "ollama"
    ELSE "chat"

\* The family whose request shape the call s was given.
ShapeOf(s) ==
    IF s.route = "bedrock" THEN "bedrock"
    ELSE IF s.request = NoVal THEN "none"
    ELSE IF DOMAIN s.request.body = {"model", "prompt", "stream"} THEN "ollama"
    ELSE IF DOMAIN s.request.body = {"model", "messages"} THEN "chat"
    ELSE "unknown"

\* C14 (as claimed): the request has the shape of the family named by the
\* descriptor's type when that is bedrock or ollama, whatever the endpoint;
\* otherwise of the family found by case-insensitive matching on the
\* endpoint, and {model, messages} when nothing matches.
C14_TypeFieldFirst ==
    (inv.pc # "new" /\ inv.request # NoVal) => ShapeOf(inv) = ClaimedFamily(inv_cfg)

\* The response paths documented for the family of the descriptor: the
\* Bedrock family of its model, else ollama (by request shape or by type),
\* else chat.
DocumentedPaths(config, s) ==
    IF s.route = "bedrock"
    THEN LET family == BedrockFamily(config.model) IN
         CASE family = "claude" -> {"content"}
           [] family = "titan" -> {"results"}
           [] family = "nova" -> {"output"}
           [] family = "llama" -> {"generation"}
           [] family = "mistral" -> {"outputs"}
           [] OTHER -> {"content", "output"}
    ELSE IF ShapeOf(s) = "ollama" \/ config.type = "ollama" THEN {"response"}
    ELSE {"choices"}

\* C15: for every family, a first reply that is a success carrying the text T
\* at a response path documented for the family makes the call return
\* exactly T, after one request and no sleep.
C15_AdapterRoundTrip ==
    (/\ Len(trace) = 1
     /\ trace[1].kind = "http"
     /\ trace[1].status = 200
     /\ trace[1].body.path \in DocumentedPaths(inv_cfg, inv)) =>
        /\ inv.pc = "ret"
        /\ inv.val = trace[1].body.text
        /\ inv.reqs = 1
        /\ inv.sleeps = <<>>

\* C15 witness: an Ollama-shaped call answered with a "response" body
\* returned its text.
C15_Witness ==
    /\ inv_cfg = D_ollama_url
    /\ ShapeOf(inv) = "ollama"
    /\ trace = <<Ok(Body("response", TextBy(Direct)))>>
    /\ inv.pc = "ret"
    /\ inv.val = TextBy(Direct)

\* s up to its first occurrence of sep, all of s if there is none
UpTo(s, sep) == IF Find(s, sep) = 0 THEN s ELSE SubSeq(s, 1, Find(s, sep) - 1)
\* s after its first occurrence of sep
After(s, sep) == SubSeq(s, Find(s, sep) + Len(sep), Len(s))

\* The region as claimed: what follows the first "region=" of the endpoint,
\* up to the next "&"; "us-east-1" without a "region=".
ClaimedRegion(endpoint) ==
    IF Contains(endpoint, S_region_eq)
    THEN UpTo(After(endpoint, S_region_eq), S_amp)
    ELSE S_us_east_1

\* The region as amended: what follows the first "region=", up to the next
\* "region=" or "&", whichever comes first.
AmendedRegion(endpoint) ==
    IF Contains(endpoint, S_region_eq)
    THEN UpTo(UpTo(After(endpoint, S_region_eq), S_region_eq), S_amp)
    ELSE S_us_east_1

InvokeUrl(region, model) == S_runtime_host \o region \o S_model_path \o model \o S_invoke

\* C16 (as claimed): the URL of a Bedrock call is
\* https://bedrock-runtime.{region}.amazonaws.com/model/{model}/invoke with
\* region the text after "region=" in the endpoint up to the next "&", or
\* us-east-1 without that marker, for prefixed and unprefixed models alike.
C16_InvokeUrlAsClaimed ==
    inv.route = "bedrock" =>
        inv.request.url = InvokeUrl(ClaimedRegion(inv_cfg.endpoint), inv_cfg.model)

\* C16 (amended): as above, with region the text after the first "region="
\* up to the next "region=" or "&", whichever comes first.
C16_InvokeUrl ==
    inv.route = "bedrock" =>
        inv.request.url = InvokeUrl(AmendedRegion(inv_cfg.endpoint), inv_cfg.model)

\* C16 witness: a returned call to the profile us.amazon.nova with the
\* endpoint "aws?region=us-west-2&x=1" posted to the us-west-2 host.
C16_Witness ==
    /\ inv_cfg = D_region_amp
    /\ inv.pc = "ret"
    /\ StartsWith(inv_cfg.model, S_us)
    /\ inv.request.url =
          InvokeUrl(<<"u","s","-","w","e","s","t","-","2">>, inv_cfg.model)

\* The branch was cancelled.
Cancelled(task) == task.inv.pc = "raise" /\ task.inv.val = CancelledError

\* The cancelled branches of "tasks" each left an error-annotated slot at
\* their own position.
AbortedSlots(tasks) ==
    \A i \in DOMAIN tasks :
        Cancelled(tasks[i]) =>
            /\ tasks[i].st = "done"
            /\ tasks[i].result.participant = i
            /\ tasks[i].result.error # NoneVal

\* C17 (as claimed): a branch of either phase that is cancelled in flight
\* leaves an error-annotated slot at its own position; the gather does not
\* fail, and the run does not raise.
C17_AbortIsolated ==
    /\ AbortedSlots(response_tasks)
    /\ AbortedSlots(ranking_tasks)
    /\ run_pc # "raised"

\* The prompt text a request body carries.
PromptOf(body) ==
    IF "prompt" \in DOMAIN body THEN body.prompt
    ELSE IF "inputText" \in DOMAIN body THEN body.inputText
    ELSE IF "inferenceConfig" \in DOMAIN body THEN body.messages[1].content[1].text
    ELSE body.messages[1].content

\* the phase-1 payload of participant i: its text, or its error marker
ResponseText(i) == response_tasks[i].result.response
\* the phase-2 payload of participant i
RankingText(i) == ranking_tasks[i].result.ranking

\* C18: in a run of 3 participants every ranking prompt embeds the phase-1
\* payloads of participants 0, 1, 2 under A, B, C (the error marker of a
\* failed one), all ranking prompts are the same, the chairman prompt embeds
\* the same three payloads and then the ranking payloads of participants 0,
\* 1, 2, and these prompts are what the requests carry.
C18_PositionalPrompts ==
    N = 3 =>
        /\ \A i \in DOMAIN ranking_tasks :
            ranking_tasks[i].st \in {"running", "done"} =>
                /\ ranking_tasks[i].prompt.prompt = Prompt
                /\ ranking_tasks[i].prompt.A = ResponseText(0)
                /\ ranking_tasks[i].prompt.B = ResponseText(1)
                /\ ranking_tasks[i].prompt.C = ResponseText(2)
                /\ ranking_tasks[i].inv.request # NoVal =>
                      PromptOf(ranking_tasks[i].inv.request.body) = ranking_tasks[i].prompt
                /\ \A j \in DOMAIN ranking_tasks :
                      ranking_tasks[j].st \in {"running", "done"} =>
                          ranking_tasks[j].prompt = ranking_tasks[i].prompt
        /\ chair.calls > 0 =>
                /\ chair.prompt.prompt = Prompt
                /\ chair.prompt.A = ResponseText(0)
                /\ chair.prompt.B = ResponseText(1)
                /\ chair.prompt.C = ResponseText(2)
                /\ chair.prompt.r1 = RankingText(0)
                /\ chair.prompt.r2 = RankingText(1)
                /\ chair.prompt.r3 = RankingText(2)
                /\ chair.inv.request # NoVal =>
                      PromptOf(chair.inv.request.body) = chair.prompt

\* C18 witness: a returned run in which participant 1 failed and a later
\* branch overtook an earlier one in phase 1; ranker 0 posted a prompt with
\* the error marker under B, and the chairman posted its prompt.
C18_Witness ==
    /\ Returned3
    /\ overtaken.p1
    /\ response_tasks[1].result.error # NoneVal
    /\ ranking_tasks[0].inv.reqs > 0
    /\ PromptOf(ranking_tasks[0].inv.request.body).B = ErrorMarker(response_tasks[1].inv.val)
    /\ chair.inv.reqs > 0
    /\ PromptOf(chair.inv.request.body).r3 = RankingText(2)

\* The call s run on its own against the replies "replies", in order, every
\* sleep followed by its wake-up: where it ends and the replies left over.
RECURSIVE Replay(_, _, _)
Replay(config, s, replies) ==
    IF s.pc = "sleep" THEN Replay(config, OnWake(s), replies)
    ELSE IF s.pc = "post" /\ Len(replies) > 0
    THEN Replay(config, OnReply(config, s, Head(replies)), Tail(replies))
    ELSE [s |-> s, rest |-> replies]

\* Branch i of phase 1 run on its own against the replies of its backend:
\* its slot, and the replies it left unread.
ExpectedParticipant(i) ==
    LET task == call_participant(i, participants[i], Prompt)
        end == Replay(participants[i], task.inv, heard[Participant(i)]) IN
    [result |-> ParticipantSettle(task, end.s).result, rest |-> end.rest]

\* Branch i of phase 2 run on its own, given the phase-1 slots, against the
\* replies of its backend.
ExpectedRanker(i, resps) ==
    LET task == call_ranking(i, participants[i], Prompt, resps)
        end == Replay(participants[i], task.inv, heard[Ranker(i)]) IN
    [result |-> RankingSettle(task, end.s).result, rest |-> end.rest]

\* The list <<a, b, c>> indexed from 0
List3(a, b, c) == [i \in 0..2 |-> IF i = 0 THEN a ELSE IF i = 1 THEN b ELSE c]

\* final_output as the chairman loop's last call_llm determines it
ExpectedFinal ==
    IF chair.inv.pc = "ret" THEN chair.inv.val ELSE ConsensusErrorMarker(chair.inv.val)

\* C19: in a run of 3 participants the slot of every finished branch is the
\* one its own backend's replies determine (for a ranking branch, together
\* with the phase-1 slots), whatever the order of the steps of the branches,
\* and the result returned is the one assembled from these slots, the prompt
\* and the chairman's outcome.
C19_InterleavingFree ==
    N = 3 =>
        LET p0 == ExpectedParticipant(0)
            p1 == ExpectedParticipant(1)
            p2 == ExpectedParticipant(2)
            p == List3(p0, p1, p2)
            resps == List3(p0.result, p1.result, p2.result)
            r0 == ExpectedRanker(0, resps)
            r1 == ExpectedRanker(1, resps)
            r2 == ExpectedRanker(2, resps)
            r == List3(r0, r1, r2)
            ranks == List3(r0.result, r1.result, r2.result) IN
        /\ \A i \in DOMAIN response_tasks :
            response_tasks[i].st = "done" =>
                /\ response_tasks[i].result = p[i].result
                /\ p[i].rest = <<>>
        /\ \A i \in DOMAIN ranking_tasks :
            ranking_tasks[i].st = "done" =>
                /\ ranking_tasks[i].result = r[i].result
                /\ r[i].rest = <<>>
        /\ chair.calls > 0 => chair.prompt = ChairmanPrompt(Prompt, resps, ranks)
        /\ run_pc = "returned" =>
                outcome = RunResult(Prompt, resps, ranks, ExpectedFinal)

\* C19 witness: a returned run in which, in both phases, a branch completed
\* before one of lower index, and a participant was throttled once before it
\* succeeded.
C19_Witness ==
    /\ Returned3
    /\ overtaken.p1 /\ overtaken.p2
    /\ \E i \in 0..2 :
        /\ heard[Participant(i)] = <<ErrStatus(429), Ok(Body("choices", TextBy(Participant(i))))>>
        /\ outcome.value.responses[i].response = TextBy(Participant(i))


\* the requests issued so far by the first n coroutines of "tasks"
RECURSIVE RequestsUpTo(_, _)
RequestsUpTo(tasks, n) ==
    IF n = 0 THEN 0 ELSE tasks[n - 1].inv.reqs + RequestsUpTo(tasks, n - 1)
Requests(tasks) == RequestsUpTo(tasks, ListLen(tasks))

WorkBounded ==
    N = 3 =>
        /\ Requests(response_tasks) <= 9
        /\ Requests(ranking_tasks) <= 9
        /\ chair.reqs <= 15
        /\ http_calls = Requests(response_tasks) + Requests(ranking_tasks) + chair.reqs
        /\ http_calls <= 33
        /\ run_pc = "returned" => chair.calls >= 1

\* C20: a run with 3 participants never has more than 9 phase-1 requests, 9
\* phase-2 requests and 15 chairman requests behind it (33 in all, and no
\* request besides these), has called the chairman at least once when it
\* returns, and, every post being answered and every sleep ending, does
\* return.
C20_BoundedWorkAndTermination ==
    /\ []WorkBounded
    /\ <>(N = 3 => run_pc = "returned")

\* C20 witness: a returned run whose every request was throttled: 9 requests
\* in each phase and 15 by the 5 chairman calls.
C20_Witness ==
    /\ Returned3
    /\ Requests(response_tasks) = 9
    /\ Requests(ranking_tasks) = 9
    /\ chair.reqs = 15
    /\ chair.calls = 5
    /\ http_calls = 33


\* how many of the readings "times" lie in the 15-minute window opening at a
WindowCount(times, a) ==
    Cardinality({i \in 1..Len(times) : a <= times[i] /\ times[i] < a + RATE_WINDOW})
\* how many of the readings "times" are less than 15 minutes old at now
Fresh(times, now) ==
    Cardinality({i \in 1..Len(times) : 0 <= now - times[i] /\ now - times[i] < RATE_WINDOW})
\* the same, a reading later than now counted too
FreshOrLater(times, now) ==
    Cardinality({i \in 1..Len(times) : now - times[i] < RATE_WINDOW})

\* C21: for every client no 15-minute window holds the readings of more than
\* 100 requests passed on to the handlers; a request that finds 100 passed
\* requests of its client less than 15 minutes old is answered 429, is not
\* passed on and is not recorded; a request is refused on the count of its
\* own client only, and the records of the other clients are left alone.
C21_RateLimiter ==
    /\ \A c \in Clients : \A i \in 1..Len(admitted[c]) :
            WindowCount(admitted[c], admitted[c][i]) <= RATE_LIMIT
    /\ last # NoVal =>
        LET c == last.client_ip
            fresh == Fresh(last.admitted[c], last.now) IN
        /\ fresh >= RATE_LIMIT =>
            /\ ~last.call_next
            /\ last.response.status = 429
            /\ admitted = last.admitted
            /\ Len(request_counts[c]) <= Len(last.request_counts[c])
        /\ ~last.call_next => FreshOrLater(last.admitted[c], last.now) >= RATE_LIMIT
        /\ \A d \in Clients \ {c} :
            request_counts[d] = last.request_counts[d] /\ admitted[d] = last.admitted[d]


(***************************************************************************)
(* The Bedrock family of a call.                                           *)
(***************************************************************************)
\* The families in the order the claim gives them, and the names each is
\* known by: the longer names of the source ("anthropic.claude",
\* "amazon.titan", ...) contain the shorter ones.
FamilyOrder == <<"claude", "titan", "nova", "llama", "mistral">>
FamilyNames(family) ==
    CASE family = "claude" -> {S_claude}
      [] family = "titan" -> {S_titan}
      [] family = "nova" -> {S_nova}
      [] family = "llama" -> {S_llama}
      [] family = "mistral" -> {S_mistral, S_mixtral}
Named(model, family) == \E name \in FamilyNames(family) : Contains(Lower(model), name)
\* every family the lower-cased identifier names
FamiliesNamed(model) == {i \in 1..Len(FamilyOrder) : Named(model, FamilyOrder[i])}
\* first match in the claimed order, else generic
FirstMatch(model) ==
    IF FamiliesNamed(model) = {} THEN "generic"
    ELSE FamilyOrder[CHOOSE i \in FamiliesNamed(model) :
                        \A j \in FamiliesNamed(model) : i <= j]

\* The family a request body was built for, read off its keys.
FamilyOfBody(body) ==
    CASE DOMAIN body = {"anthropic_version", "max_tokens", "messages"} -> "claude"
      [] DOMAIN body = {"inputText", "textGenerationConfig"} -> "titan"
      [] DOMAIN body = {"messages", "inferenceConfig"} -> "nova"
      [] DOMAIN body = {"prompt", "max_gen_len", "temperature"} -> "llama"
      [] DOMAIN body = {"prompt", "max_tokens", "temperature"} -> "mistral"
      [] DOMAIN body = {"messages", "max_tokens"} -> "generic"
      [] OTHER -> "none"

\* What parsing a 200 body as a family yields: the text at the path of the
\* family, for the generic family at "content" or "output" and else the
\* body as a string; a KeyError when the family's key is absent.
ParsedAs(family, body) ==
    CASE family = "claude" -> Subscript(body, "content")
      [] family = "titan" -> Subscript(body, "results")
      [] family = "nova" -> Subscript(body, "output")
      [] family = "llama" -> Subscript(body, "generation")
      [] family = "mistral" -> Subscript(body, "outputs")
      [] OTHER -> IF body.path \in {"content", "output"} THEN Returned(body.text)
                  ELSE Returned(StrOf(body))

\* C22: on the Bedrock path the family is the first match, in the order
\* claude, titan, nova, llama, mistral/mixtral, else generic, on the
\* lower-cased model identifier; the request body is built for that family
\* and each attempt's 200 reply is parsed as that same family (its text is
\* returned when the family's path is there, and the call does not return
\* otherwise); every attempt posts the same URL, body and headers.
C22_OneFamilyOneRequest ==
    inv.route = "bedrock" =>
        LET family == FirstMatch(inv_cfg.model) IN
        /\ FamilyOfBody(inv.request.body) = family
        /\ inv.request.authorization = inv_cfg.api_key
        /\ Len(inv.posts) = inv.reqs
        /\ \A i \in 1..Len(inv.posts) : inv.posts[i] = inv.posts[1]
        /\ \A i \in 1..Len(inv.posts) : inv.posts[i] = inv.request
        /\ (/\ trace # <<>>
            /\ trace[Len(trace)].kind = "http"
            /\ trace[Len(trace)].status = 200) =>
                LET parsed == ParsedAs(FamilyOfBody(inv.request.body),
                                       trace[Len(trace)].body) IN
                IF parsed.ok
                THEN inv.pc = "ret" /\ inv.val = parsed.val
                ELSE /\ inv.pc # "ret"
                     /\ inv.pc = "raise" => inv.val = parsed.exc

\* C22 witness: a call whose identifier names both llama and nova built a
\* nova body, saw its first reply fail, posted the same request a second
\* time and returned the text of an "output" body.
C22_Witness ==
    /\ inv_cfg = D_llama_nova
    /\ inv.route = "bedrock"
    /\ FamiliesNamed(inv_cfg.model) = {3, 4}
    /\ FamilyOfBody(inv.request.body) = "nova"
    /\ Len(inv.posts) = 2
    /\ trace = <<ErrStatus(500), Ok(Body("output", TextBy(Direct)))>>
    /\ inv.pc = "ret"
    /\ inv.val = TextBy(Direct)

====
